---- MODULE Spec2Model ----
(***************************************************************************)
(* The region-derivation pass of the Map component (refreshQuestions) and  *)
(* the stores and handlers that feed it.                                   *)
(*                                                                         *)
(* Regions are sets of cells of a small grid.  Every store is a variable   *)
(* named after the nanostores atom it models.  A handler together with the *)
(* re-render and the effects it causes is one action: useStore re-renders   *)
(* the component synchronously with the store, so the closure an effect     *)
(* runs with holds the stores' current values.  The closure captured by    *)
(* the setInterval callback is the one of the render in which the map was  *)
(* mounted, and is never refreshed.                                        *)
(***************************************************************************)
EXTENDS Integers, Sequences, FiniteSets, TLC

\* ------------------------------------------------------------------ bounds
NCells == 2
MaxQuestions == 2
MaxPasses == 2
MaxLayers == 2
MaxEvents == 4
MaxTeamEvents == 3
MaxServiceEvents == 3
MaxDialogEvents == 4
MaxMessages == 2
MaxSaveEvents == 4
MaxPlaceEvents == 4
MaxPanelEvents == 4
MaxLocations == 2
NQueries == 3
MaxPending == 2
MaxResults == 2
MaxTime == 2
MaxRuns == 2
MaxInbox == 2
NClients == 2

\* null, for a store that holds a polygon: no set of cells
NULL == {-1}
\* null, for questionFinishedMapData
NoMapData == [type |-> "null", features |-> << >>]

Cells == 1..NCells
\* the fixed frame the mask is cut from; cell 0 lies outside every base polygon
OuterFrame == 0..NCells
Keys == 1..MaxQuestions
PassIds == 1..MaxPasses
Selections == Cells

\* the persisted default of polyGeoJSON (the DC polygon)
DefaultPolygon == {1}

\* ------------------------------------------------------------------ state
VARIABLES
    map,                      \* leafletMapContext is set
    isLoading,                \* the busy flag
    questions,                \* the questions store (the current array)
    mapGeoJSON,
    polyGeoJSON,
    selection,                \* mapGeoLocation / additionalMapGeoLocations
    planningModeEnabled,
    hiderMode,
    questionFinishedMapData,
    layers,                   \* the map's layers tagged eliminationGeoJSON
    toasts,                   \* toasts on screen
    passes,                   \* the invocations of refreshQuestions in flight
    watchdog,                 \* the closure the interval callback captured
    events,                   \* the user and timer events so far
    lastFold,                 \* history: the pass whose fold returned last
    clipboard,                \* the text on the system clipboard
    previews,                 \* the keys of the map's layers tagged questionKey
    cache,                    \* the entries of the caches (@/maps/api)
    globalTeamState,          \* the team server's state
    clients,                  \* the sockets: open, inbox, the tab's teamState
    selectedTeam,             \* the team sidebar's selected team
    previousActiveTeam,       \* the team sidebar's tracking state
    previousRunning,
    service,                  \* the timer page's TeamUpdateService
    dialog,                   \* the timer page's RunEditDialog
    picker,                   \* the place picker's search box
    serverLog,                \* what the team server wrote to its console
    saveState,                \* autoSave, the stored question list, triggerLocalRefresh
    places,                   \* mapGeoLocation and additionalMapGeoLocations
    panel                     \* the timer control panel: enabledTeams, selectedTimerTeam

vars == << map, isLoading, questions, mapGeoJSON, polyGeoJSON,
           selection, planningModeEnabled, hiderMode, questionFinishedMapData,
           layers, toasts, passes, watchdog, events, lastFold, clipboard,
           previews, cache, globalTeamState, clients, selectedTeam,
           previousActiveTeam, previousRunning, service, dialog, picker,
           serverLog, saveState, places, panel >>

\* ------------------------------------------------------------- questions
\* A question: its key, whether it is answered, whether it is finalized
\* (not a draft), and the area its answer permits.
\* The question with key k permits the cell AreaOf(k).
AreaOf(k) == {((k - 1) % NCells) + 1}
Question(k, a, f) == [key |-> k, answered |-> a, finalized |-> f, area |-> AreaOf(k)]

\* the payloads the UI creates: answered ones, and for every key but the
\* first also an unanswered one and a draft
QuestionPool == { Question(k, TRUE, TRUE) : k \in Keys }
                    \cup { Question(k, FALSE, TRUE) : k \in Keys \ {1} }
                    \cup { Question(k, TRUE, FALSE) : k \in Keys \ {1} }

KeysOf(qs) == { qs[i].key : i \in 1..Len(qs) }

\* ------------------------------------------------------------- clipboard
\* A text: whether it is JSON, and the object it denotes.
NotJSON == [json |-> FALSE, value |-> [none |-> 0]]
\* JSON.stringify(questionData, null, 4): every field of the question
JSONStringify(q) == [json |-> TRUE, value |-> q]
\* texts copied from elsewhere: no JSON, an object without the question's
\* data, and a question payload that carries no key
NoDataText == [json |-> TRUE, value |-> [key |-> 1]]
KeylessText == [json |-> TRUE, value |-> [answered |-> TRUE, area |-> {1}]]
OtherTexts == { NotJSON, NoDataText, KeylessText }

\* JSON.parse throws on a text that is no JSON
JSONParseThrows(text) == ~text.json
JSONParse(text) == text.value

\* questionSchema.parse: the payload must carry the question's data; a field
\* the payload carries is kept, a missing one gets its default (for the key,
\* a fresh number)
SchemaThrowsMutLenient(obj) == DOMAIN obj = {}
SchemaThrows(obj) == "area" \notin DOMAIN obj
ParsedKey(obj, fresh) == IF "key" \in DOMAIN obj THEN obj.key ELSE fresh
ParsedDataMutDefault(obj) == Cells
ParsedData(obj) == obj.area
questionSchemaParse(obj, fresh) ==
    [key |-> ParsedKey(obj, fresh),
     answered |-> IF "answered" \in DOMAIN obj THEN obj.answered ELSE FALSE,
     finalized |-> IF "finalized" \in DOMAIN obj THEN obj.finalized ELSE TRUE,
     area |-> IF "area" \in DOMAIN obj THEN ParsedData(obj) ELSE {}]

\* ------------------------------------------------------------ geometry
\* the boundary the lookup service returns for a selection
determineMapBoundaries(sel) == sel..NCells

\* a cache entry: the cache it is in and its key
CacheEntry(type, key) == [type |-> type, key |-> key]
\* clearCache(cacheType = CacheType.CACHE): every entry of that cache is dropped
clearCache(entries, cacheType) == { e \in entries : e.type # cacheType }
\* the lookup stores the boundary it resolved under its query
BoundaryCached(entries, sel) == entries \cup {CacheEntry("CACHE", sel)}
\* the fold memoizes the zones it computed for its questions; the model
\* keeps one entry for them, whatever the questions
ZonesCached(entries, qs) ==
    IF qs = << >> THEN entries ELSE entries \cup {CacheEntry("ZONE_CACHE", 0)}

\* an evaluator: an unanswered question is a no-op
EvaluateMutUnanswered(q, region) == region \cap q.area
Evaluate(q, region) == IF q.answered THEN region \cap q.area ELSE region

\* in planning mode only finalized questions are folded
IsFoldedMutAll(q, planning) == TRUE
IsFolded(q, planning) == ~(planning /\ ~q.finalized)

RECURSIVE Fold(_, _, _, _)
Fold(qs, region, planning, emptyAt) ==
    IF qs = << >>
    THEN [feasibleRegion |-> region, emptyAt |-> emptyAt]
    ELSE LET q == Head(qs)
             next == IF region = {} \/ ~IsFolded(q, planning)
                     THEN region
                     ELSE Evaluate(q, region)
             e == IF emptyAt = {} /\ region # {} /\ next = {}
                  THEN {q.key}
                  ELSE emptyAt
         IN  Fold(Tail(qs), next, planning, e)

\* derive: fold the questions, in list order, into a clone of the base;
\* emptyAt is {} or holds the key of the question that emptied the region
applyQuestionsToMapGeoData(qs, base, planning) == Fold(qs, base, planning, {})

\* in planning mode the fold hands every draft to the preview callback
PreviewKeys(qs, planning) ==
    { qs[i].key : i \in { j \in 1..Len(qs) : planning /\ ~qs[j].finalized } }

\* a missing base polygon is a degenerate input: GeometryError; an empty
\* region is a result
FoldThrowsMutEmpty(qs, base, planning) ==
    base = NULL \/ applyQuestionsToMapGeoData(qs, base, planning).feasibleRegion = {}
FoldThrows(qs, base, planning) == base = NULL

holedMask(region) == OuterFrame \ region

FeatureCollection(polygon) == [type |-> "FeatureCollection", features |-> << polygon >>]

\* ---------------------------------------------------- refreshQuestions
\* One invocation of refreshQuestions: where it is suspended (pc), the
\* $questions and $hiderMode of its closure, its local mapGeoData (base),
\* the selection its boundary lookup was started for, the index of the
\* hiderify loop, and the planning flag read when the fold was called.
IdleSlot == [pc |-> "idle", qs |-> << >>, hider |-> FALSE,
             base |-> NULL, sel |-> 0, i |-> 0, planning |-> FALSE, focus |-> FALSE,
             alias |-> FALSE]

InFlight == { p \in PassIds : passes[p].pc # "idle" }

HasFree(pss) == \E p \in PassIds : pss[p].pc = "idle"
FreeSlot(pss) == CHOOSE p \in PassIds :
                    /\ pss[p].pc = "idle"
                    /\ \A q \in PassIds : q < p => pss[q].pc # "idle"

\* the argument passed as the base of the fold
FoldBaseMutBoundary(s, sel) == determineMapBoundaries(sel)
FoldBase(s, sel) == s.base

\* lines 108-127: the fold is called with $questions, mapGeoData and the
\* planning flag as they are now
FoldCall(s, planning) == [s EXCEPT !.pc = "apply", !.planning = planning, !.hider = FALSE]

\* lines 100-106
HiderStep(s, planning) ==
    IF s.hider /\ Len(s.qs) > 0
    THEN [s EXCEPT !.pc = "hiderify", !.i = 1]
    ELSE FoldCall(s, planning)

\* lines 78-98, up to the await of the boundary lookup
BoundaryStep(s, mg, pg, sel, planning) ==
    IF mg # NULL
    THEN [slot |-> HiderStep([s EXCEPT !.base = mg], planning), mapGeoJSON |-> mg]
    ELSE IF pg # NULL
         THEN [slot |-> HiderStep([s EXCEPT !.base = pg], planning), mapGeoJSON |-> pg]
         ELSE [slot |-> [s EXCEPT !.pc = "boundaries", !.sel = sel], mapGeoJSON |-> mg]

\* lines 108-112: an invocation that reaches the call of the fold first
\* removes every layer tagged questionKey
LayersRemoved ==
    previews' = IF \E p \in PassIds : passes[p].pc # "apply" /\ passes'[p].pc = "apply"
                THEN {}
                ELSE previews

\* the busy check of line 70, on the closure's $isLoading
BusyCheck(cl) == cl.isLoading

\* lines 334 and 349: the effect calls refreshQuestions(true), the interval
\* callback refreshQuestions(false)
Focus(cl) == "installed" \notin DOMAIN cl

\* lines 67-76; cl is the closure of the render the caller was created in
refreshQuestions(cl, m, pss, il, mg, pg, sel, planning) ==
    IF ~m \/ BusyCheck(cl)
    THEN [passes |-> pss, isLoading |-> il, mapGeoJSON |-> mg]
    ELSE LET s0 == [IdleSlot EXCEPT !.qs = cl.questions, !.hider = cl.hiderMode,
                                    !.focus = Focus(cl), !.alias = cl.alias]
             st == IF Len(cl.questions) = 0
                   THEN [slot |-> [s0 EXCEPT !.pc = "clearCache"], mapGeoJSON |-> mg]
                   ELSE BoundaryStep(s0, mg, pg, sel, planning)
         IN  [passes |-> [pss EXCEPT ![FreeSlot(pss)] = st.slot],
              isLoading |-> TRUE,
              mapGeoJSON |-> st.mapGeoJSON]

\* the model holds at most MaxPasses invocations
CanCall(cl, m, pss) == (m /\ ~BusyCheck(cl)) => HasFree(pss)

\* the stores of the team server, its clients, the team sidebar and the
\* timer page
\* the state of the pages added to the model last
extraVars == << serverLog, saveState, places, panel >>
restVars == << picker, extraVars >>
teamVars == << globalTeamState, clients, selectedTeam, previousActiveTeam,
               previousRunning, service, dialog, restVars >>

\* the closure of the render that follows a store change
\* alias: the closure's $questions is the array the store holds now
RenderClosure(qs, hm, il) ==
    [isLoading |-> il, questions |-> qs, hiderMode |-> hm, alias |-> TRUE]

\* questions.set(a new array): the arrays the invocations in flight hold are
\* no longer the store's
Unaliased(pss) == [p \in PassIds |-> [pss[p] EXCEPT !.alias = FALSE]]
\* sidebar-coordination.ts line 112: questions.get().push(q) changes the
\* store's array in place, and with it the $questions of every closure that
\* holds this array
Pushed(pss, q) ==
    [p \in PassIds |-> IF pss[p].alias THEN [pss[p] EXCEPT !.qs = Append(@, q)]
                                       ELSE pss[p]]

\* lines 331-335: the effect on [$questions, map, $hiderMode], run by the
\* render that follows the handler; the handler left the stores at
\* qs, mg, pg, sel, hm
RefreshEffectOn(pss, qs, mg, pg, sel, hm) ==
    LET cl == RenderClosure(qs, hm, isLoading)
        r == refreshQuestions(cl, map, pss, isLoading, mg, pg, sel, planningModeEnabled)
    IN  /\ CanCall(cl, map, pss)
        /\ questions' = qs
        /\ passes' = r.passes
        /\ isLoading' = r.isLoading
        /\ mapGeoJSON' = r.mapGeoJSON
        /\ polyGeoJSON' = pg
        /\ selection' = sel
        /\ hiderMode' = hm
        /\ LayersRemoved

\* $hiderMode changed: the render runs the effect
RefreshEffect(qs, mg, pg, sel, hm) == RefreshEffectOn(passes, qs, mg, pg, sel, hm)

\* questions.set(a new array), after the handler left the other stores at
\* mg, pg, sel, hm: $questions changed, so the render runs the effect
Publish(qs, mg, pg, sel, hm) ==
    /\ RefreshEffectOn(Unaliased(passes), qs, mg, pg, sel, hm)
    /\ watchdog' = [watchdog EXCEPT !.alias = FALSE]

\* sidebar-coordination.ts lines 111-116: addQuestion with autoSave on, the
\* push in place and then questions.set([...questions.get()])
addQuestion(q) ==
    /\ RefreshEffectOn(Unaliased(Pushed(passes, q)), Append(questions, q),
                       mapGeoJSON, polyGeoJSON, selection, hiderMode)
    /\ watchdog' = IF watchdog.alias
                   THEN [watchdog EXCEPT !.questions = Append(@, q), !.alias = FALSE]
                   ELSE watchdog

\* sidebar-coordination.ts lines 108-110, 151, 198-201: autoSave (default
\* true), the list persisted under "questions" by the last questions.set, and
\* the number of triggerLocalRefresh.set calls
NewSaveState == [autoSave |-> TRUE, persisted |-> << >>, triggerLocalRefresh |-> 0]

\* line 115: if (autoSave.get())
ShouldPublishMutAlways(st) == TRUE
ShouldPublish(st) == st.autoSave

\* a field of a question is edited: the question object changes in place, in
\* every array that holds it
Edited(qs, k) ==
    [i \in 1..Len(qs) |-> IF qs[i].key = k THEN [qs[i] EXCEPT !.answered = ~@]
                                           ELSE qs[i]]
EditedIn(pss, k) == [p \in PassIds |-> [pss[p] EXCEPT !.qs = Edited(@, k)]]

\* the place picker's locations: the base location and the additional ones,
\* each in add mode (added) or in subtract mode
DefaultPlaces == [mapGeoLocation |-> 1, additionalMapGeoLocations |-> << >>]

\* PlacePicker.tsx lines 201-204: the additional locations in add mode
addedLocationsMutAny(additional) == 1..Len(additional)
addedLocations(additional) == { i \in 1..Len(additional) : additional[i].added }

\* lines 206-219: the first added location gets base = true, the locations
\* with base = true leave the list, and the first becomes mapGeoLocation
Promoted(pl, first) ==
    LET marked == [pl.additionalMapGeoLocations EXCEPT ![first].base = TRUE]
    IN  [mapGeoLocation |-> marked[first].location,
         additionalMapGeoLocations |-> SelectSeq(marked, LAMBDA x : x.base # TRUE)]

\* no fold has returned yet
NoFold == [done |-> FALSE, qs |-> << >>, base |-> NULL, planning |-> FALSE]

\* ===================================================== the team server
\* the teams of the model (two of 'green' | 'yellow' | 'blue' | 'red')
Teams == {"green", "blue"}
\* activeTeam: null, selectedTeam: null
NoTeam == "null"
\* the run ids requests carry
RunIds == {"r1", "r2"}
\* currentRunId: null
NoRun == "null"
\* timestamps; 0 is the timestamp that is falsy
Times == 0..MaxTime
\* currentRunStartTime: null
NoTime == -1
\* the values Date.now() returns
Clock == 1..MaxTime
\* the sockets that connect to the server; App is the tab of the team sidebar
Clients == 1..NClients
App == 1

\* JavaScript's truthiness of a number
Truthy(x) == x # 0
\* run.f is neither undefined nor falsy
HasTruthy(run, f) == f \in DOMAIN run /\ Truthy(run[f])
\* { ...run, ...updateData }
Spread(run, updateData) == updateData @@ run
\* findIndex(run => run.id === runId), 0 when there is none
findIndex(runs, runId) ==
    IF \E i \in 1..Len(runs) : runs[i].id = runId
    THEN CHOOSE i \in 1..Len(runs) :
            /\ runs[i].id = runId
            /\ \A j \in 1..(i - 1) : runs[j].id # runId
    ELSE 0
\* splice(i, 1)
Splice(runs, i) == [j \in 1..(Len(runs) - 1) |-> IF j < i THEN runs[j] ELSE runs[j + 1]]

\* lines 634-640: the state of a server that has just started
IdleTeamState ==
    [activeTeam |-> NoTeam, currentRunId |-> NoRun, currentRunStartTime |-> NoTime,
     isRunning |-> FALSE, teamRuns |-> << >>]

\* the message of a full state sync
SyncMessage(g) == [type |-> "team_state_sync", payload |-> g]

\* what a handler of the server leaves: the state and the messages it broadcast
Outcome(g, sent) == [state |-> g, sent |-> sent]

\* a run stamped as ended at endTime with duration endTime - startTime
Ended(run, endTime) ==
    Spread(run, [endTime |-> endTime, duration |-> endTime - run.startTime])

\* lines 727-735: starting a run stops the run in progress at Date.now()
StopExisting(g, now) ==
    LET i == findIndex(g.teamRuns, g.currentRunId)
    IN  IF g.isRunning /\ g.currentRunId # NoRun /\ i > 0
           /\ ~HasTruthy(g.teamRuns[i], "endTime")
        THEN [g.teamRuns EXCEPT ![i] = Ended(g.teamRuns[i], now)]
        ELSE g.teamRuns

\* lines 719-725: if (!team || !runId || !startTime) return
InvalidStartMutNoCheck(payload) == FALSE
InvalidStart(payload) ==
    payload.team = NoTeam \/ payload.runId = NoRun \/ ~Truthy(payload.startTime)

\* lines 771-776: if (!runId || !endTime) return
InvalidStop(payload) == payload.runId = NoRun \/ ~Truthy(payload.endTime)

\* lines 718-768
handleTeamRunStart(g, payload, now) ==
    IF InvalidStart(payload)
    THEN Outcome(g, << >>)
    ELSE LET newRun == [id |-> payload.runId, teamColor |-> payload.team,
                        startTime |-> payload.startTime]
             g2 == [activeTeam |-> payload.team, currentRunId |-> payload.runId,
                    currentRunStartTime |-> payload.startTime, isRunning |-> TRUE,
                    teamRuns |-> Append(StopExisting(g, now), newRun)]
         IN  Outcome(g2, << [type |-> "team_run_started",
                             payload |-> [activeTeam |-> payload.team,
                                          currentRunId |-> payload.runId,
                                          currentRunStartTime |-> payload.startTime,
                                          isRunning |-> TRUE, newRun |-> newRun,
                                          teamState |-> g2]] >>)

\* lines 770-817
handleTeamRunStop(g, payload) ==
    LET i == findIndex(g.teamRuns, payload.runId)
    IN  IF InvalidStop(payload) \/ i = 0
        THEN Outcome(g, << >>)
        ELSE LET run == Ended(g.teamRuns[i], payload.endTime)
                 g2 == [activeTeam |-> NoTeam, currentRunId |-> NoRun,
                        currentRunStartTime |-> NoTime, isRunning |-> FALSE,
                        teamRuns |-> [g.teamRuns EXCEPT ![i] = run]]
             IN  Outcome(g2, << [type |-> "team_run_stopped",
                                 payload |-> [runId |-> payload.runId,
                                              endTime |-> payload.endTime,
                                              duration |-> run.duration,
                                              updatedRun |-> run,
                                              teamState |-> g2]] >>)

\* lines 719 and 771: const { team, runId, startTime } = payload; a field the
\* payload lacks is undefined, which is falsy as null and 0 are
Destructured(payload) ==
    [f \in {"team", "runId", "startTime", "endTime"} |->
        IF f \in DOMAIN payload THEN payload[f]
        ELSE IF f = "team" THEN NoTeam
        ELSE IF f = "runId" THEN NoRun
        ELSE 0]

\* lines 684-707: ws.on('message'), for the messages that ask for no reply;
\* whatever is thrown inside is caught and logged, and so is a message
\* without a payload, whose destructuring throws
onmessage(g, data, now) ==
    IF JSONParseThrows(data)
    THEN Outcome(g, << >>)
    ELSE LET message == JSONParse(data)
         IN  IF "type" \notin DOMAIN message
             THEN Outcome(g, << >>)
             ELSE IF message.type \in {"team_run_start", "team_run_stop"}
                     /\ "payload" \notin DOMAIN message
             THEN Outcome(g, << >>)
             ELSE IF message.type = "team_run_start"
             THEN handleTeamRunStart(g, Destructured(message.payload), now)
             ELSE IF message.type = "team_run_stop"
             THEN handleTeamRunStop(g, Destructured(message.payload))
             ELSE Outcome(g, << >>)

\* the line the handler of a message writes to the server's console
LogLine(g, data) ==
    IF JSONParseThrows(data) THEN "Error parsing WebSocket message"
    ELSE LET message == JSONParse(data)
         IN  IF "type" \notin DOMAIN message THEN "Unknown message type"
             ELSE IF message.type \notin {"team_run_start", "team_run_stop"}
             THEN "Unknown message type"
             ELSE IF "payload" \notin DOMAIN message
             THEN "Error parsing WebSocket message"
             ELSE IF message.type = "team_run_start"
             THEN IF InvalidStart(Destructured(message.payload))
                  THEN "Invalid team run start payload" ELSE "Started run"
             ELSE IF InvalidStop(Destructured(message.payload))
             THEN "Invalid team run stop payload"
             ELSE IF findIndex(g.teamRuns, message.payload.runId) = 0
             THEN "Run not found" ELSE "Stopped run"

\* lines 840-857: POST /api/teams/clear
clearTeams(g) == Outcome(IdleTeamState, << SyncMessage(IdleTeamState) >>)

\* lines 859-888: DELETE /api/teams/run/:id
deleteRunMutAlwaysResets(g, runId) ==
    LET i == findIndex(g.teamRuns, runId)
    IN  IF i = 0
        THEN Outcome(g, << >>)
        ELSE LET g2 == [IdleTeamState EXCEPT !.teamRuns = Splice(g.teamRuns, i)]
             IN  Outcome(g2, << SyncMessage(g2) >>)
deleteRun(g, runId) ==
    LET i == findIndex(g.teamRuns, runId)
    IN  IF i = 0
        THEN Outcome(g, << >>)
        ELSE LET g1 == IF g.currentRunId = runId
                       THEN [g EXCEPT !.activeTeam = NoTeam, !.currentRunId = NoRun,
                                      !.currentRunStartTime = NoTime,
                                      !.isRunning = FALSE]
                       ELSE g
                 g2 == [g1 EXCEPT !.teamRuns = Splice(g.teamRuns, i)]
             IN  Outcome(g2, << SyncMessage(g2) >>)

\* lines 910-913: the duration is recalculated if start and end time are set
Recalculated(updatedRun) ==
    IF HasTruthy(updatedRun, "startTime") /\ HasTruthy(updatedRun, "endTime")
    THEN Spread(updatedRun, [duration |-> updatedRun.endTime - updatedRun.startTime])
    ELSE updatedRun

\* lines 890-939: PUT /api/teams/run/:id
updateRun(g, runId, updateData) ==
    LET i == findIndex(g.teamRuns, runId)
    IN  IF i = 0
        THEN Outcome(g, << >>)
        ELSE LET updatedRun == Recalculated(Spread(g.teamRuns[i], updateData))
                 g1 == [g EXCEPT !.teamRuns[i] = updatedRun]
                 g2 == IF g.currentRunId = runId /\ "startTime" \in DOMAIN updateData
                       THEN [g1 EXCEPT !.currentRunStartTime = updateData.startTime]
                       ELSE g1
             IN  Outcome(g2, << SyncMessage(g2) >>)

\* ================================================== the team client
\* payload.f ?? fallback
Nullish(payload, f, fallback) == IF f \in DOMAIN payload THEN payload[f] ELSE fallback

\* lines 375-388, the payload of a sync without a teamState field
SyncedMutNoRuns(payload) ==
    [activeTeam |-> Nullish(payload, "activeTeam", NoTeam),
     currentRunId |-> Nullish(payload, "currentRunId", NoRun),
     currentRunStartTime |-> Nullish(payload, "currentRunStartTime", NoTime),
     isRunning |-> Nullish(payload, "isRunning", FALSE),
     teamRuns |-> << >>]
Synced(payload) ==
    [activeTeam |-> Nullish(payload, "activeTeam", NoTeam),
     currentRunId |-> Nullish(payload, "currentRunId", NoRun),
     currentRunStartTime |-> Nullish(payload, "currentRunStartTime", NoTime),
     isRunning |-> Nullish(payload, "isRunning", FALSE),
     teamRuns |-> Nullish(payload, "teamRuns", << >>)]

\* lines 370-458: TeamUpdateService.handleUpdate, the teamState it leaves
handleUpdate(currentState, update) ==
    LET payload == update.payload
    IN  CASE update.type = "team_state_sync" ->
               IF "teamState" \in DOMAIN payload THEN payload.teamState
                                                  ELSE Synced(payload)
          [] update.type = "team_run_started" ->
               IF "teamState" \in DOMAIN payload THEN payload.teamState
               ELSE IF "newRun" \in DOMAIN payload
               THEN [currentState EXCEPT
                       !.activeTeam = payload.activeTeam,
                       !.currentRunId = payload.currentRunId,
                       !.currentRunStartTime = payload.currentRunStartTime,
                       !.isRunning = payload.isRunning,
                       !.teamRuns = Append(currentState.teamRuns, payload.newRun)]
               ELSE currentState
          [] update.type = "team_run_stopped" ->
               IF "teamState" \in DOMAIN payload THEN payload.teamState
               ELSE IF "updatedRun" \in DOMAIN payload
               THEN [currentState EXCEPT
                       !.teamRuns = [i \in 1..Len(currentState.teamRuns) |->
                           IF currentState.teamRuns[i].id = payload.updatedRun.id
                           THEN payload.updatedRun ELSE currentState.teamRuns[i]]]
               ELSE currentState
          [] OTHER -> currentState

\* a socket that is not connected; teamState is the store's initial value
ClosedClient(ts) == [open |-> FALSE, hello |-> FALSE, inbox |-> << >>, teamState |-> ts]

\* lines 665-672: broadcast, to every client whose socket is open
broadcast(cs, sent) ==
    [c \in Clients |->
        IF cs[c].open
        THEN [cs[c] EXCEPT !.inbox = cs[c].inbox \o
                 [i \in 1..Len(sent) |-> JSONStringify(sent[i])]]
        ELSE cs[c]]

\* ================================================= the team sidebar
\* lines 96, 131
HasActiveRun(ts, team) == ts.isRunning /\ ts.activeTeam = team

\* what an effect leaves
Effect(hm, ts, pa, pr) ==
    [hiderMode |-> hm, toasts |-> ts, previousActiveTeam |-> pa, previousRunning |-> pr]

\* part_001 lines 93-125: the effect on [$selectedTeam, isRunning, activeTeam]
RunStatusEffectMutNoDisable(sel, ts, e) ==
    IF sel = NoTeam THEN e
    ELSE LET has == HasActiveRun(ts, sel)
             had == e.previousRunning /\ e.previousActiveTeam = sel
         IN  IF has /\ ~had /\ ~e.hiderMode
             THEN Effect(TRUE, e.toasts \cup {"Hider mode enabled automatically for run"},
                         ts.activeTeam, ts.isRunning)
             ELSE Effect(e.hiderMode, e.toasts, ts.activeTeam, ts.isRunning)
RunStatusEffect(sel, ts, e) ==
    IF sel = NoTeam THEN e
    ELSE LET has == HasActiveRun(ts, sel)
             had == e.previousRunning /\ e.previousActiveTeam = sel
         IN  IF has /\ ~had /\ ~e.hiderMode
             THEN Effect(TRUE, e.toasts \cup {"Hider mode enabled automatically for run"},
                         ts.activeTeam, ts.isRunning)
             ELSE IF ~has /\ had /\ e.hiderMode
             THEN Effect(FALSE, e.toasts \cup {"Hider mode disabled - run ended"},
                         ts.activeTeam, ts.isRunning)
             ELSE Effect(e.hiderMode, e.toasts, ts.activeTeam, ts.isRunning)

\* part_001 lines 128-149: the effect on [$selectedTeam]
SelectionEffectMutNoDisable(sel, ts, e) ==
    IF sel = NoTeam THEN e
    ELSE IF HasActiveRun(ts, sel) /\ ~e.hiderMode
    THEN [e EXCEPT !.hiderMode = TRUE,
                   !.toasts = @ \cup {"Hider mode enabled automatically - has an active run"}]
    ELSE e
SelectionEffect(sel, ts, e) ==
    IF sel = NoTeam THEN e
    ELSE IF HasActiveRun(ts, sel) /\ ~e.hiderMode
    THEN [e EXCEPT !.hiderMode = TRUE,
                   !.toasts = @ \cup {"Hider mode enabled automatically - has an active run"}]
    ELSE IF ~HasActiveRun(ts, sel) /\ e.hiderMode
    THEN [e EXCEPT !.hiderMode = FALSE,
                   !.toasts = @ \cup {"Hider mode disabled - has no active run"}]
    ELSE e

\* the effects the render after a store change runs: each one whose
\* dependencies changed, in the order of their declaration
SidebarEffects(sel0, ts0, sel, ts) ==
    LET e0 == Effect(hiderMode, toasts, previousActiveTeam, previousRunning)
        e1 == IF sel # sel0 \/ ts.isRunning # ts0.isRunning
                 \/ ts.activeTeam # ts0.activeTeam
              THEN RunStatusEffect(sel, ts, e0) ELSE e0
        e2 == IF sel # sel0 THEN SelectionEffect(sel, ts, e1) ELSE e1
    IN  /\ hiderMode' = e2.hiderMode
        /\ toasts' = e2.toasts
        /\ previousActiveTeam' = e2.previousActiveTeam
        /\ previousRunning' = e2.previousRunning

\* ------------------------------------------------------------------ Init
\* ================================================== the team update service
\* QuestionSidebar.tsx line 296
maxReconnectAttempts == 5
\* the tab of the timer control page
Timer == 2

\* TimerControlPanel.tsx lines 33-35: the panel's stores; every team is
\* enabled and none is selected until the panel changes that
NewPanel == [enabledTeams |-> [t \in Teams |-> TRUE], selectedTimerTeam |-> NoTeam,
             toast |-> "none"]

\* TimerControlPanel.tsx line 151: the team is enabled and its run is the
\* active one in the panel's team state
HasActiveRunOf(pn, ts, team) ==
    pn.enabledTeams[team] /\ ts.isRunning /\ ts.activeTeam = team

\* lines 149-165: toggleTeamEnabled
toggleTeamEnabled(pn, ts, team) ==
    IF HasActiveRunOf(pn, ts, team)
    THEN [pn EXCEPT !.toast = "error"]
    ELSE LET newEnabledTeams == [pn.enabledTeams EXCEPT ![team] = ~@]
         IN  [pn EXCEPT !.enabledTeams = newEnabledTeams,
                        !.selectedTimerTeam =
                            IF ~newEnabledTeams[team] /\ @ = team THEN NoTeam ELSE @,
                        !.toast = "info"]

\* QuestionSidebar.tsx lines 293-298: the fields of a TeamUpdateService; timers
\* counts the pending setTimeout callbacks, reachable is whether a connection
\* to the server can be established, warned whether broadcastUpdate has
\* logged that it cannot send, closing counts the sockets closed by
\* disconnect() whose close event has not fired yet, disconnected is whether
\* disconnect() was called
NewService ==
    [websocket |-> "null", isConnected |-> FALSE, reconnectAttempts |-> 0,
     timers |-> 0, reachable |-> TRUE, warned |-> FALSE, closing |-> 0,
     disconnected |-> FALSE]

\* lines 460-471
handleReconnectMutNoLimit(s) ==
    [s EXCEPT !.reconnectAttempts = IF @ < maxReconnectAttempts THEN @ + 1 ELSE @,
              !.timers = @ + 1]
handleReconnect(s) ==
    IF s.reconnectAttempts < maxReconnectAttempts
    THEN [s EXCEPT !.reconnectAttempts = @ + 1, !.timers = @ + 1]
    ELSE s

\* lines 322-329: connect() creates the socket
connect(s) == [s EXCEPT !.websocket = "connecting"]
\* lines 330-341, without the send
onopen(s) == [s EXCEPT !.websocket = "open", !.isConnected = TRUE,
                       !.reconnectAttempts = 0]
\* lines 352-357
onclose(s) == handleReconnect([s EXCEPT !.isConnected = FALSE, !.websocket = "null"])
\* lines 359-362
onerror(s) == [s EXCEPT !.isConnected = FALSE]

\* lines 488-494: disconnect() closes the socket, whose handlers stay attached
disconnect(s) ==
    [s EXCEPT !.closing = IF s.websocket # "null" THEN @ + 1 ELSE @,
              !.websocket = "null", !.isConnected = FALSE, !.disconnected = TRUE]

\* lines 474-486: broadcastUpdate sends if the socket is there and connected
CanBroadcastMutAlways(s) == TRUE
CanBroadcast(s) == s.websocket # "null" /\ s.isConnected

\* ================================================== the run edit dialog
\* TimerControlPanel.tsx line 37 and RunEditDialog.tsx lines 45-49: no run is
\* being edited; saved is the id of the run whose edit the server accepted last
NoDialog == [open |-> FALSE, run |-> [id |-> NoRun], endTime |-> NoTime, saved |-> NoRun,
             isSaving |-> FALSE, toast |-> "none"]

\* RunEditDialog.tsx line 53
isActiveRunMutNever(run, ts) == FALSE
isActiveRun(run, ts) == run.id = ts.currentRunId /\ ts.isRunning

\* RunEditDialog.tsx lines 94-99: the body of the PUT request; endTime is the
\* parsed end-time field, NoTime when the field is empty
updateDataOf(teamColor, startTime, endTime) ==
    IF endTime # NoTime /\ Truthy(endTime)
    THEN [teamColor |-> teamColor, startTime |-> startTime, endTime |-> endTime,
          duration |-> endTime - startTime]
    ELSE [teamColor |-> teamColor, startTime |-> startTime]

\* RunEditDialog.tsx lines 72-92: handleSave's validation passes
ValidTimes(startTime, endTime, currentTime) ==
    /\ ~(startTime > currentTime)
    /\ (endTime # NoTime /\ Truthy(endTime)) =>
          (~(startTime >= endTime) /\ ~(endTime > currentTime))

\* RunEditDialog.tsx lines 72-92: the error handleSave shows for times that
\* fail its validation
ValidationError(startTime, endTime, currentTime) ==
    IF startTime > currentTime THEN "Start time cannot be in the future"
    ELSE IF endTime # NoTime /\ Truthy(endTime) /\ startTime >= endTime
         THEN "End time must be after start time"
    ELSE "End time cannot be in the future"

\* ================================================== the place picker
\* the search texts: NoText is the empty text
NoText == 0
Queries == 1..NQueries
\* the candidates a lookup of text q returned, n of them
Candidates(q, n) == { [query |-> q, id |-> i] : i \in 1..n }

\* PlacePicker.tsx lines 63-67: the search box's state; pending holds the calls
\* of geocode in flight, each with the error flag at the time of the call
NewPicker ==
    [debouncedValue |-> NoText, results |-> {}, loading |-> FALSE, error |-> FALSE,
     pending |-> << >>]

\* PlacePicker.tsx lines 69-87: the effect on [debouncedValue]
GeocodeEffect(pk, q) ==
    IF q = NoText
    THEN [pk EXCEPT !.debouncedValue = q, !.results = {}]
    ELSE [pk EXCEPT !.debouncedValue = q, !.loading = TRUE, !.results = {},
                    !.pending = Append(@, [query |-> q, afterError |-> pk.error])]
\* lines 77-80: the promise of geocode resolves with x
GeocodeThen(pk, x) == [pk EXCEPT !.results = x, !.loading = FALSE]
\* lines 81-85: the promise of geocode rejects
GeocodeCatch(pk) == [pk EXCEPT !.error = TRUE, !.loading = FALSE]

\* lines 259-276 and 277-300: what the list shows; CommandEmpty is rendered
\* when there is no item
Shown(pk) ==
    IF pk.results # {} THEN "results"
    ELSE IF pk.loading THEN "Loading..."
    ELSE IF pk.error THEN "Photon is down"
    ELSE "No locations found."

Init ==
    /\ map = FALSE
    /\ isLoading = FALSE
    /\ questions = << >>
    /\ mapGeoJSON = NULL
    /\ polyGeoJSON = DefaultPolygon
    /\ selection = 1
    /\ planningModeEnabled = FALSE
    /\ hiderMode = FALSE
    /\ questionFinishedMapData = NoMapData
    /\ layers = << >>
    /\ toasts = {}
    /\ passes = [p \in PassIds |-> IdleSlot]
    /\ watchdog = [installed |-> FALSE, isLoading |-> FALSE, questions |-> << >>,
                   hiderMode |-> FALSE, alias |-> FALSE]
    /\ events = 0
    /\ lastFold = NoFold
    /\ clipboard = NotJSON
    /\ previews = {}
    /\ cache = {}
    /\ globalTeamState = IdleTeamState
    /\ clients = [c \in Clients |-> ClosedClient(IdleTeamState)]
    /\ selectedTeam = NoTeam
    /\ previousActiveTeam = NoTeam
    /\ previousRunning = FALSE
    /\ service = connect(NewService)
    /\ dialog = NoDialog
    /\ picker = NewPicker
    /\ serverLog = << >>
    /\ saveState = NewSaveState
    /\ places = DefaultPlaces
    /\ panel = NewPanel

\* --------------------------------------------------------------- actions
\* a user or timer event; the model follows sessions of at most MaxEvents
Event == events < MaxEvents /\ events' = events + 1

\* a request to the team server or an event of the team sidebar; the model
\* follows sessions of at most MaxTeamEvents
TeamEvent == events < MaxTeamEvents /\ events' = events + 1

\* MapContainer's ref sets leafletMapContext; the render that follows runs
\* the refresh effect and installs the interval with this render's closure
MapMounted ==
    /\ UNCHANGED << events, lastFold, clipboard >>
    /\ ~map
    /\ map' = TRUE
    /\ LET cl == RenderClosure(questions, hiderMode, isLoading)
           r == refreshQuestions(cl, TRUE, passes, isLoading, mapGeoJSON,
                                 polyGeoJSON, selection, planningModeEnabled)
       IN  /\ passes' = r.passes
           /\ isLoading' = r.isLoading
           /\ mapGeoJSON' = r.mapGeoJSON
           /\ watchdog' = [installed |-> TRUE, isLoading |-> cl.isLoading,
                           questions |-> cl.questions, hiderMode |-> cl.hiderMode,
                           alias |-> TRUE]
    /\ UNCHANGED << questions, polyGeoJSON, selection, planningModeEnabled,
                    hiderMode, questionFinishedMapData, layers, toasts >>
    /\ LayersRemoved
    /\ UNCHANGED cache
    /\ UNCHANGED teamVars

\* addQuestion (the sidebar buttons and the map's context menu): the parsed
\* question is pushed and questionModified republishes the list (autoSave is
\* at its default, true)
AddQuestion(q) ==
    /\ Event
    /\ UNCHANGED << lastFold, clipboard >>
    /\ map
    /\ Len(questions) < MaxQuestions
    /\ q.key \notin KeysOf(questions)
    /\ addQuestion(q)
    /\ UNCHANGED << map, planningModeEnabled, questionFinishedMapData,
                    layers, toasts >>
    /\ UNCHANGED cache
    /\ UNCHANGED teamVars

\* the Delete Question button of a question card
DeleteQuestion(k) ==
    /\ Event
    /\ UNCHANGED << lastFold, clipboard >>
    /\ map
    /\ k \in KeysOf(questions)
    /\ Publish(SelectSeq(questions, LAMBDA q : q.key # k),
               mapGeoJSON, polyGeoJSON, selection, hiderMode)
    /\ UNCHANGED << map, planningModeEnabled, questionFinishedMapData,
                    layers, toasts >>
    /\ UNCHANGED cache
    /\ UNCHANGED teamVars

\* the Delete All Questions button of a question card
DeleteAllQuestions ==
    /\ Event
    /\ UNCHANGED << lastFold, clipboard >>
    /\ map
    /\ questions # << >>
    /\ Publish(<< >>, mapGeoJSON, polyGeoJSON, selection, hiderMode)
    /\ UNCHANGED << map, planningModeEnabled, questionFinishedMapData,
                    layers, toasts >>
    /\ UNCHANGED cache
    /\ UNCHANGED teamVars

\* planningModeEnabled.set: the Map component does not subscribe to this store
SetPlanningMode ==
    /\ Event
    /\ UNCHANGED << lastFold, clipboard >>
    /\ map
    /\ planningModeEnabled' = ~planningModeEnabled
    /\ UNCHANGED << map, isLoading, questions, mapGeoJSON, polyGeoJSON,
                    selection, hiderMode, questionFinishedMapData, layers, toasts,
                    passes, watchdog >>
    /\ UNCHANGED previews
    /\ UNCHANGED cache
    /\ UNCHANGED teamVars

\* hiderMode.set by the team sidebar, which also shows a toast: $hiderMode is
\* a dependency of the effect
SetHiderMode ==
    /\ Event
    /\ UNCHANGED << lastFold, clipboard >>
    /\ map
    /\ RefreshEffect(questions, mapGeoJSON, polyGeoJSON, selection,
                     ~hiderMode)
    /\ toasts' = toasts \cup {IF hiderMode THEN "Hider mode disabled"
                                           ELSE "Hider mode enabled automatically"}
    /\ UNCHANGED << map, planningModeEnabled, questionFinishedMapData,
                    layers, watchdog >>
    /\ UNCHANGED cache
    /\ UNCHANGED teamVars

\* PlacePicker, a search result selected
SelectPlace(s) ==
    /\ Event
    /\ UNCHANGED << lastFold, clipboard >>
    /\ map
    /\ Publish(questions, NULL, NULL, s, hiderMode)
    /\ UNCHANGED << map, planningModeEnabled, questionFinishedMapData,
                    layers, toasts >>
    /\ UNCHANGED cache
    /\ UNCHANGED teamVars

\* PlacePicker, Clear Questions & Cache
ClearQuestionsAndCache ==
    /\ Event
    /\ UNCHANGED << lastFold, clipboard >>
    /\ map
    /\ Publish(<< >>, NULL, NULL, selection, hiderMode)
    /\ UNCHANGED << map, planningModeEnabled, questionFinishedMapData,
                    layers, toasts >>
    /\ cache' = clearCache(cache, "ZONE_CACHE")
    /\ UNCHANGED teamVars

\* PlacePicker, Restore DC Default
RestoreDCDefault ==
    /\ Event
    /\ UNCHANGED << lastFold, clipboard >>
    /\ map
    /\ Publish(<< >>, NULL, DefaultPolygon, 1, hiderMode)
    /\ toasts' = toasts \cup {"Restored Washington DC default hiding zone"}
    /\ UNCHANGED << map, planningModeEnabled, questionFinishedMapData,
                    layers >>
    /\ cache' = clearCache(cache, "ZONE_CACHE")
    /\ UNCHANGED teamVars

\* PlacePicker, Reuse Preset Locations
ReusePresetLocations ==
    /\ Event
    /\ UNCHANGED << lastFold, clipboard >>
    /\ map
    /\ polyGeoJSON # NULL
    /\ Publish(questions, NULL, NULL, selection, hiderMode)
    /\ UNCHANGED << map, planningModeEnabled, questionFinishedMapData,
                    layers, toasts >>
    /\ UNCHANGED cache
    /\ UNCHANGED teamVars

\* the copy button of a question card: the question with this key, as text
CopyQuestion(k) ==
    /\ Event
    /\ k \in KeysOf(questions)
    /\ LET questionData == questions[CHOOSE i \in 1..Len(questions) :
                               /\ questions[i].key = k
                               /\ \A j \in 1..(i - 1) : questions[j].key # k]
       IN  clipboard' = JSONStringify(questionData)
    /\ toasts' = toasts \cup {"Question copied to clipboard!"}
    /\ UNCHANGED << map, isLoading, questions, mapGeoJSON, polyGeoJSON, selection,
                    planningModeEnabled, hiderMode, questionFinishedMapData, layers,
                    passes, watchdog, lastFold >>
    /\ UNCHANGED previews
    /\ UNCHANGED cache
    /\ UNCHANGED teamVars

\* the user copies a text somewhere else
CopyOtherText(t) ==
    /\ Event
    /\ clipboard # t
    /\ clipboard' = t
    /\ UNCHANGED << map, isLoading, questions, mapGeoJSON, polyGeoJSON, selection,
                    planningModeEnabled, hiderMode, questionFinishedMapData, layers,
                    toasts, passes, watchdog, lastFold >>
    /\ UNCHANGED previews
    /\ UNCHANGED cache
    /\ UNCHANGED teamVars

\* Paste Question (disabled while loading): addQuestion(JSON.parse(text));
\* a throw of JSON.parse or of the schema rejects the promise before the push
PasteQuestion(fresh) ==
    /\ Event
    /\ map
    /\ ~isLoading
    /\ Len(questions) < MaxQuestions
    /\ fresh \notin KeysOf(questions)
    /\ IF JSONParseThrows(clipboard) \/ SchemaThrows(JSONParse(clipboard))
       THEN /\ toasts' = toasts \cup {"No valid question found in clipboard"}
            /\ UNCHANGED << isLoading, questions, mapGeoJSON, polyGeoJSON, selection,
                            hiderMode, passes, previews, watchdog >>
       ELSE /\ toasts' = toasts \cup {"Question added from clipboard!"}
            /\ addQuestion(questionSchemaParse(JSONParse(clipboard), fresh))
    /\ UNCHANGED << map, planningModeEnabled, questionFinishedMapData, layers,
                    lastFold, clipboard >>
    /\ UNCHANGED cache
    /\ UNCHANGED teamVars

\* another component adds a layer tagged eliminationGeoJSON to the shared map
\* (leafletMapContext): an overlay, which is no mask
OtherLayer == FeatureCollection(Cells)

OtherLayerAdded ==
    /\ Event
    /\ UNCHANGED << lastFold, clipboard >>
    /\ map
    /\ Len(layers) < MaxLayers
    /\ layers' = Append(layers, OtherLayer)
    /\ UNCHANGED << map, isLoading, questions, mapGeoJSON, polyGeoJSON,
                    selection, planningModeEnabled, hiderMode, questionFinishedMapData,
                    toasts, passes, watchdog >>
    /\ UNCHANGED previews
    /\ UNCHANGED cache
    /\ UNCHANGED teamVars

\* lines 337-354: the interval callback, with the closure it captured
Watchdog ==
    /\ Event
    /\ UNCHANGED << lastFold, clipboard >>
    /\ watchdog.installed
    /\ Len(layers) > 1
    /\ CanCall(watchdog, map, passes)
    /\ LET r == refreshQuestions(watchdog, map, passes, isLoading, mapGeoJSON,
                                 polyGeoJSON, selection, planningModeEnabled)
       IN  /\ passes' = r.passes
           /\ isLoading' = r.isLoading
           /\ mapGeoJSON' = r.mapGeoJSON
    /\ UNCHANGED << map, questions, polyGeoJSON, selection,
                    planningModeEnabled, hiderMode, questionFinishedMapData, layers,
                    toasts, watchdog >>
    /\ LayersRemoved
    /\ UNCHANGED cache
    /\ UNCHANGED teamVars

DismissToasts ==
    /\ Event
    /\ UNCHANGED << lastFold, clipboard >>
    /\ toasts # {}
    /\ toasts' = {}
    /\ UNCHANGED << map, isLoading, questions, mapGeoJSON, polyGeoJSON,
                    selection, planningModeEnabled, hiderMode, questionFinishedMapData,
                    layers, passes, watchdog >>
    /\ UNCHANGED previews
    /\ UNCHANGED cache
    /\ UNCHANGED teamVars

\* ------------------------------------------- the await points of a pass
\* line 75: clearCache() resolved
ClearCacheDone(p) ==
    /\ UNCHANGED << events, lastFold, clipboard >>
    /\ passes[p].pc = "clearCache"
    /\ LET st == BoundaryStep(passes[p], mapGeoJSON, polyGeoJSON, selection,
                              planningModeEnabled)
       IN  /\ passes' = [passes EXCEPT ![p] = st.slot]
           /\ mapGeoJSON' = st.mapGeoJSON
    /\ UNCHANGED << map, isLoading, questions, polyGeoJSON, selection,
                    planningModeEnabled, hiderMode, questionFinishedMapData, layers,
                    toasts, watchdog >>
    /\ LayersRemoved
    /\ cache' = clearCache(cache, "CACHE")
    /\ UNCHANGED teamVars

\* line 75: clearCache() rejected; the await is outside the try block
ClearCacheFailed(p) ==
    /\ UNCHANGED << events, lastFold, clipboard >>
    /\ passes[p].pc = "clearCache"
    /\ passes' = [passes EXCEPT ![p] = IdleSlot]
    /\ UNCHANGED << map, isLoading, questions, mapGeoJSON, polyGeoJSON,
                    selection, planningModeEnabled, hiderMode, questionFinishedMapData,
                    layers, toasts, watchdog >>
    /\ UNCHANGED previews
    /\ UNCHANGED cache
    /\ UNCHANGED teamVars

\* lines 88-91: the lookup resolved
BoundariesResolved(p) ==
    /\ UNCHANGED << events, lastFold, clipboard >>
    /\ passes[p].pc = "boundaries"
    /\ LET x == determineMapBoundaries(passes[p].sel)
       IN  /\ mapGeoJSON' = x
           /\ passes' = [passes EXCEPT ![p] =
                            HiderStep([@ EXCEPT !.base = x, !.sel = 0], planningModeEnabled)]
    /\ UNCHANGED << map, isLoading, questions, polyGeoJSON, selection,
                    planningModeEnabled, hiderMode, questionFinishedMapData, layers,
                    toasts, watchdog >>
    /\ LayersRemoved
    /\ cache' = BoundaryCached(cache, passes[p].sel)
    /\ UNCHANGED teamVars

\* line 92: the lookup (a miss of the cache) rejected; the error is logged and swallowed, so the
\* promise handed to toast.promise resolves and mapGeoData stays null
BoundariesFailed(p) ==
    /\ UNCHANGED << events, lastFold, clipboard >>
    /\ passes[p].pc = "boundaries"
    /\ CacheEntry("CACHE", passes[p].sel) \notin cache
    /\ passes' = [passes EXCEPT ![p] = HiderStep([@ EXCEPT !.sel = 0], planningModeEnabled)]
    /\ UNCHANGED << map, isLoading, questions, mapGeoJSON, polyGeoJSON,
                    selection, planningModeEnabled, hiderMode, questionFinishedMapData,
                    layers, toasts, watchdog >>
    /\ LayersRemoved
    /\ UNCHANGED cache
    /\ UNCHANGED teamVars

\* line 102: hiderifyQuestion resolved for the question at index i
HiderifyDone(p) ==
    /\ UNCHANGED << events, lastFold, clipboard >>
    /\ passes[p].pc = "hiderify"
    /\ passes' = [passes EXCEPT ![p] =
                    IF @.i < Len(@.qs)
                    THEN [@ EXCEPT !.i = @ + 1]
                    ELSE FoldCall([@ EXCEPT !.i = 0], planningModeEnabled)]
    /\ UNCHANGED << map, isLoading, questions, mapGeoJSON, polyGeoJSON,
                    selection, planningModeEnabled, hiderMode, questionFinishedMapData,
                    layers, toasts, watchdog >>
    /\ LayersRemoved
    /\ UNCHANGED cache
    /\ UNCHANGED teamVars

\* line 102: hiderifyQuestion rejected; the await is outside the try block
HiderifyFailed(p) ==
    /\ UNCHANGED << events, lastFold, clipboard >>
    /\ passes[p].pc = "hiderify"
    /\ passes' = [passes EXCEPT ![p] = IdleSlot]
    /\ UNCHANGED << map, isLoading, questions, mapGeoJSON, polyGeoJSON,
                    selection, planningModeEnabled, hiderMode, questionFinishedMapData,
                    layers, toasts, watchdog >>
    /\ UNCHANGED previews
    /\ UNCHANGED cache
    /\ UNCHANGED teamVars

\* what lines 129-132 build from the region the fold returned
MaskDataMutRegion(region) == FeatureCollection(region)
MaskData(region) == FeatureCollection(holedMask(region))

\* lines 115-148 and 170-171: the fold returned
ApplyOk(p) ==
    /\ UNCHANGED << events, clipboard >>
    /\ lastFold' = [done |-> TRUE, qs |-> passes[p].qs,
                    base |-> passes[p].base,
                    planning |-> passes[p].planning]
    /\ passes[p].pc = "apply"
    /\ ~FoldThrows(passes[p].qs, FoldBase(passes[p], selection), passes[p].planning)
    /\ LET s == passes[p]
           envelope == applyQuestionsToMapGeoData(s.qs, FoldBase(s, selection), s.planning)
           mapGeoData == MaskData(envelope.feasibleRegion)
       IN  /\ layers' = << mapGeoData >>
           /\ questionFinishedMapData' = mapGeoData
    /\ isLoading' = FALSE
    /\ passes' = [passes EXCEPT ![p] = IdleSlot]
    /\ UNCHANGED << map, questions, mapGeoJSON, polyGeoJSON, selection,
                    planningModeEnabled, hiderMode, toasts, watchdog >>
    /\ previews' = previews \cup PreviewKeys(passes[p].qs, passes[p].planning)
    /\ cache' = ZonesCached(cache, passes[p].qs)
    /\ UNCHANGED teamVars

\* lines 163-171: the fold or the mask threw
ApplyError(p) ==
    /\ UNCHANGED << events, lastFold, clipboard >>
    /\ passes[p].pc = "apply"
    /\ FoldThrows(passes[p].qs, FoldBase(passes[p], selection), passes[p].planning)
    /\ isLoading' = FALSE
    /\ toasts' = IF toasts = {} THEN {"No solutions found / error occurred"} ELSE toasts
    /\ passes' = [passes EXCEPT ![p] = IdleSlot]
    /\ UNCHANGED << map, questions, mapGeoJSON, polyGeoJSON, selection,
                    planningModeEnabled, hiderMode, questionFinishedMapData, layers,
                    watchdog >>
    /\ UNCHANGED previews
    /\ UNCHANGED cache
    /\ UNCHANGED teamVars

Next ==
    \/ MapMounted
    \/ \E q \in QuestionPool : AddQuestion(q)
    \/ \E k \in Keys : DeleteQuestion(k)
    \/ DeleteAllQuestions
    \/ SetPlanningMode
    \/ SetHiderMode
    \/ \E s \in Selections : SelectPlace(s)
    \/ ClearQuestionsAndCache
    \/ RestoreDCDefault
    \/ ReusePresetLocations
    \/ \E k \in Keys : CopyQuestion(k)
    \/ \E t \in OtherTexts : CopyOtherText(t)
    \/ \E fresh \in Keys : PasteQuestion(fresh)
    \/ OtherLayerAdded
    \/ Watchdog
    \/ DismissToasts
    \/ \E p \in PassIds : ClearCacheDone(p)
    \/ \E p \in PassIds : ClearCacheFailed(p)
    \/ \E p \in PassIds : BoundariesResolved(p)
    \/ \E p \in PassIds : BoundariesFailed(p)
    \/ \E p \in PassIds : HiderifyDone(p)
    \/ \E p \in PassIds : HiderifyFailed(p)
    \/ \E p \in PassIds : ApplyOk(p)
    \/ \E p \in PassIds : ApplyError(p)

Spec == Init /\ [][Next]_vars

\* the stores of the map, which is not mounted while the team sidebar is shown
mapVars == << map, isLoading, questions, mapGeoJSON, polyGeoJSON, selection,
              planningModeEnabled, questionFinishedMapData, layers, passes,
              watchdog, lastFold, clipboard, previews, cache >>
sidebarVars == << selectedTeam, previousActiveTeam, previousRunning, hiderMode, toasts >>
\* the state of the pages other than the map and the team sidebar
pageVars == << service, dialog, restVars >>

\* every open socket can take the messages of one more request
CanSend == \A c \in Clients : Len(clients[c].inbox) < MaxInbox

\* a handler of the server ran: its state is stored, its messages are sent
Served(out) ==
    /\ globalTeamState' = out.state
    /\ clients' = broadcast(clients, out.sent)
    /\ UNCHANGED mapVars
    /\ UNCHANGED pageVars
    /\ UNCHANGED sidebarVars

\* lines 675-682 and QuestionSidebar.tsx 330-341: a socket opens; the server
\* sends it the state, and the client will ask for the state
Connect(c) ==
    /\ UNCHANGED events
    /\ ~clients[c].open
    /\ clients' = [clients EXCEPT ![c] =
          [open |-> TRUE, hello |-> TRUE,
           inbox |-> << JSONStringify(SyncMessage(globalTeamState)) >>,
           teamState |-> clients[c].teamState]]
    /\ UNCHANGED globalTeamState
    /\ UNCHANGED mapVars
    /\ UNCHANGED pageVars
    /\ UNCHANGED sidebarVars

\* lines 695-700: the server answers get_team_state to the socket that asked
GetTeamState(c) ==
    /\ UNCHANGED events
    /\ clients[c].open
    /\ clients[c].hello
    /\ Len(clients[c].inbox) < MaxInbox
    /\ clients' = [clients EXCEPT ![c].hello = FALSE,
          ![c].inbox = Append(@, JSONStringify(SyncMessage(globalTeamState)))]
    /\ UNCHANGED globalTeamState
    /\ UNCHANGED mapVars
    /\ UNCHANGED pageVars
    /\ UNCHANGED sidebarVars

\* QuestionSidebar.tsx 352-357: the socket closes; what was sent to it and not
\* received is lost
Disconnect(c) ==
    /\ TeamEvent
    /\ clients[c].open
    /\ clients' = [clients EXCEPT ![c] = ClosedClient(clients[c].teamState)]
    /\ UNCHANGED globalTeamState
    /\ UNCHANGED mapVars
    /\ UNCHANGED pageVars
    /\ UNCHANGED sidebarVars

\* lines 689-691: a team_run_start message arrives
TeamRunStart(team, runId, startTime, now) ==
    /\ TeamEvent
    /\ CanSend
    /\ Len(globalTeamState.teamRuns) < MaxRuns
    /\ Served(handleTeamRunStart(globalTeamState,
                 [team |-> team, runId |-> runId, startTime |-> startTime], now))

\* lines 692-694: a team_run_stop message arrives
TeamRunStop(runId, endTime) ==
    /\ TeamEvent
    /\ CanSend
    /\ Served(handleTeamRunStop(globalTeamState, [runId |-> runId, endTime |-> endTime]))

ClearTeams ==
    /\ TeamEvent
    /\ CanSend
    /\ Served(clearTeams(globalTeamState))

DeleteRun(runId) ==
    /\ TeamEvent
    /\ CanSend
    /\ Served(deleteRun(globalTeamState, runId))

\* the bodies of the update requests: the edit dialog's (RunEditDialog.tsx
\* 94-99) and partial ones
UpdateBodies ==
    { [teamColor |-> tc, startTime |-> s] : tc \in Teams, s \in Times }
    \cup { [teamColor |-> tc, startTime |-> s, endTime |-> e, duration |-> e - s] :
             tc \in Teams, s \in Times, e \in Clock }
    \cup { [startTime |-> s] : s \in Times }
    \cup { [endTime |-> e] : e \in Clock }

UpdateRun(runId, updateData) ==
    /\ TeamEvent
    /\ CanSend
    /\ Served(updateRun(globalTeamState, runId, updateData))

\* QuestionSidebar.tsx 343-350: onmessage; the stores' subscribers render, and
\* in the tab of the team sidebar the effects run
Receive(c) ==
    /\ UNCHANGED events
    /\ clients[c].open
    /\ clients[c].inbox # << >>
    /\ ~JSONParseThrows(Head(clients[c].inbox))
    /\ LET ts == handleUpdate(clients[c].teamState, JSONParse(Head(clients[c].inbox)))
       IN  /\ clients' = [clients EXCEPT ![c].inbox = Tail(@), ![c].teamState = ts]
           /\ IF c = App
              THEN SidebarEffects(selectedTeam, clients[c].teamState, selectedTeam, ts)
              ELSE UNCHANGED << hiderMode, toasts, previousActiveTeam, previousRunning >>
    /\ UNCHANGED << globalTeamState, selectedTeam >>
    /\ UNCHANGED mapVars
    /\ UNCHANGED pageVars

\* part_001 lines 185-187: handleTeamSelect, and the effects of the render
SelectTeam(team) ==
    /\ TeamEvent
    /\ LET sel == IF team = selectedTeam THEN NoTeam ELSE team
       IN  /\ selectedTeam' = sel
           /\ SidebarEffects(selectedTeam, clients[App].teamState, sel,
                             clients[App].teamState)
    /\ UNCHANGED << globalTeamState, clients >>
    /\ UNCHANGED mapVars
    /\ UNCHANGED pageVars

\* the toasts time out
TeamToastsDismissed ==
    /\ TeamEvent
    /\ toasts # {}
    /\ toasts' = {}
    /\ UNCHANGED << globalTeamState, clients, selectedTeam, previousActiveTeam,
                    previousRunning, hiderMode >>
    /\ UNCHANGED mapVars
    /\ UNCHANGED pageVars

TeamNext ==
    \/ \E c \in Clients : Connect(c)
    \/ \E c \in Clients : GetTeamState(c)
    \/ \E c \in Clients : Disconnect(c)
    \/ \E team \in Teams, runId \in RunIds, startTime \in Times, now \in Clock :
          TeamRunStart(team, runId, startTime, now)
    \/ \E runId \in RunIds, endTime \in Times : TeamRunStop(runId, endTime)
    \/ ClearTeams
    \/ \E runId \in RunIds : DeleteRun(runId)
    \/ \E runId \in RunIds, updateData \in UpdateBodies : UpdateRun(runId, updateData)
    \/ \E c \in Clients : Receive(c)
    \/ \E team \in Teams : SelectTeam(team)
    \/ TeamToastsDismissed

TeamSpec == Init /\ [][TeamNext]_vars

\* ================================================== the timer page's service
\* an event of the timer page or of the network; the model follows sessions
\* of at most MaxServiceEvents
ServiceEvent == events < MaxServiceEvents /\ events' = events + 1

\* the timer page's socket is left as it is
SocketKept ==
    /\ UNCHANGED << globalTeamState, clients, dialog, restVars >>
    /\ UNCHANGED mapVars
    /\ UNCHANGED sidebarVars

\* QuestionSidebar.tsx lines 330-341 and sidebar-coordination.ts 675-682: the
\* socket opens; the server sends the state and the client asks for it
SocketOpened ==
    /\ UNCHANGED events
    /\ service.websocket = "connecting"
    /\ service.reachable
    /\ service' = onopen(service)
    /\ clients' = [clients EXCEPT ![Timer] =
          [open |-> TRUE, hello |-> TRUE,
           inbox |-> << JSONStringify(SyncMessage(globalTeamState)) >>,
           teamState |-> clients[Timer].teamState]]
    /\ UNCHANGED << globalTeamState, dialog, restVars >>
    /\ UNCHANGED mapVars
    /\ UNCHANGED sidebarVars

\* lines 352-362: the connection cannot be established; the browser fires
\* error, then close
ConnectFailed ==
    /\ UNCHANGED events
    /\ service.websocket = "connecting"
    /\ ~service.reachable
    /\ service' = onclose(onerror(service))
    /\ SocketKept

\* the open socket closes: what was sent to it and not received is lost
Closed(s) ==
    /\ service' = onclose(s)
    /\ clients' = [clients EXCEPT ![Timer] = ClosedClient(clients[Timer].teamState)]
    /\ UNCHANGED << globalTeamState, dialog, restVars >>
    /\ UNCHANGED mapVars
    /\ UNCHANGED sidebarVars

\* lines 352-357: the server or the network closes the open socket
SocketClosed ==
    /\ ServiceEvent
    /\ service.websocket = "open"
    /\ Closed(service)

\* lines 465-467: the timeout set by handleReconnect fires and calls connect()
ReconnectTimer ==
    /\ UNCHANGED events
    /\ service.timers > 0
    /\ service' = connect([service EXCEPT !.timers = @ - 1])
    /\ SocketKept

\* the server becomes unreachable; an open socket closes
NetworkDown ==
    /\ ServiceEvent
    /\ service.reachable
    /\ IF service.websocket = "open"
       THEN Closed([service EXCEPT !.reachable = FALSE])
       ELSE /\ service' = [service EXCEPT !.reachable = FALSE]
            /\ SocketKept

\* the server is reachable again
NetworkUp ==
    /\ ServiceEvent
    /\ ~service.reachable
    /\ service' = [service EXCEPT !.reachable = TRUE]
    /\ SocketKept

\* lines 474-486: broadcastUpdate; a message that is sent is handled by the
\* server (out is what the server's handler leaves)
broadcastUpdate(out) ==
    IF CanBroadcast(service)
    THEN CanSend /\ Served(out)
    ELSE /\ SocketKept
         /\ service' = [service EXCEPT !.warned = TRUE]

\* TimerControlPanel.tsx lines 68-86: startRun, for the selected team
StartRun(team, runId, now, serverNow) ==
    /\ ServiceEvent
    /\ ~clients[Timer].teamState.isRunning
    /\ Len(globalTeamState.teamRuns) < MaxRuns
    /\ broadcastUpdate(handleTeamRunStart(globalTeamState,
            [team |-> team, runId |-> runId, startTime |-> now], serverNow))

\* TimerControlPanel.tsx lines 88-101: stopRun
StopRun(now) ==
    /\ ServiceEvent
    /\ clients[Timer].teamState.isRunning
    /\ clients[Timer].teamState.currentRunId # NoRun
    /\ clients[Timer].teamState.currentRunStartTime # NoTime
    /\ Truthy(clients[Timer].teamState.currentRunStartTime)
    /\ broadcastUpdate(handleTeamRunStop(globalTeamState,
            [runId |-> clients[Timer].teamState.currentRunId, endTime |-> now]))

\* QuestionSidebar.tsx lines 585-603 and sidebar-coordination.ts 701-702: a
\* team_config_update; the server knows no such message type
ConfigUpdate ==
    /\ ServiceEvent
    /\ broadcastUpdate(Outcome(globalTeamState, << >>))

ServiceNext ==
    \/ SocketOpened
    \/ ConnectFailed
    \/ SocketClosed
    \/ ReconnectTimer
    \/ NetworkDown
    \/ NetworkUp
    \/ \E team \in Teams, runId \in RunIds, now \in Clock, serverNow \in Clock :
          StartRun(team, runId, now, serverNow)
    \/ \E now \in Clock : StopRun(now)
    \/ ConfigUpdate
    \/ GetTeamState(Timer)
    \/ Receive(Timer)
    \/ \E team \in Teams, runId \in RunIds, startTime \in Times, now \in Clock :
          TeamRunStart(team, runId, startTime, now)

ServiceSpec == Init /\ [][ServiceNext]_vars

\* the browser delivers the socket's events and the timeouts, and the server
\* answers
ServiceFairness ==
    /\ WF_vars(SocketOpened)
    /\ WF_vars(ConnectFailed)
    /\ WF_vars(ReconnectTimer)
    /\ WF_vars(GetTeamState(Timer))
    /\ WF_vars(Receive(Timer))

ServiceLiveSpec == ServiceSpec /\ ServiceFairness

\* ================================================== the timer page's dialog
\* an event of the run edit dialog; the model follows sessions of at most
\* MaxDialogEvents
DialogEvent == events < MaxDialogEvents /\ events' = events + 1

\* TimerControlPanel.tsx lines 103-105 and RunEditDialog.tsx lines 45-49:
\* handleEditRun(run) opens the dialog on a run of the list; the end-time field
\* shows the run's end time, cut to whole seconds (shown), or is empty
EditRun(i, shown) ==
    /\ DialogEvent
    /\ ~dialog.open
    /\ i \in 1..Len(clients[Timer].teamState.teamRuns)
    /\ LET run == clients[Timer].teamState.teamRuns[i]
       IN  /\ HasTruthy(run, "endTime") => (shown <= run.endTime)
           /\ dialog' = [open |-> TRUE, run |-> run,
                         endTime |-> IF HasTruthy(run, "endTime") THEN shown ELSE NoTime,
                         saved |-> dialog.saved, isSaving |-> FALSE,
                         toast |-> dialog.toast]
    /\ UNCHANGED << globalTeamState, clients, service, restVars >>
    /\ UNCHANGED mapVars
    /\ UNCHANGED sidebarVars

\* RunEditDialog.tsx lines 181-199: the end-time input, disabled for the
\* active run; typing changes the field only and is not counted as an event
EditEndTime(endTime) ==
    /\ UNCHANGED events
    /\ dialog.open
    /\ ~isActiveRun(dialog.run, clients[Timer].teamState)
    /\ dialog' = [dialog EXCEPT !.endTime = endTime]
    /\ UNCHANGED << globalTeamState, clients, service, restVars >>
    /\ UNCHANGED mapVars
    /\ UNCHANGED sidebarVars

\* RunEditDialog.tsx lines 64-116 and QuestionSidebar.tsx 542-563: handleSave
\* with the team and the start time of the form; the PUT request is answered
\* if the server is reachable
SaveRunEdit(teamColor, startTime, currentTime) ==
    /\ DialogEvent
    /\ dialog.open
    /\ IF ~ValidTimes(startTime, dialog.endTime, currentTime)
       THEN /\ dialog' = [dialog EXCEPT !.isSaving = FALSE,
                              !.toast = ValidationError(startTime, dialog.endTime,
                                                        currentTime)]
            /\ UNCHANGED << globalTeamState, clients >>
       ELSE IF service.reachable
       THEN LET out == updateRun(globalTeamState, dialog.run.id,
                                 updateDataOf(teamColor, startTime, dialog.endTime))
            IN  /\ CanSend
                /\ globalTeamState' = out.state
                /\ clients' = broadcast(clients, out.sent)
                /\ dialog' = IF out.sent # << >>
                             THEN [NoDialog EXCEPT !.saved = dialog.run.id,
                                      !.toast = "Run updated successfully"]
                             ELSE [dialog EXCEPT !.isSaving = FALSE,
                                      !.toast = "Failed to update run"]
       ELSE /\ dialog' = [dialog EXCEPT !.isSaving = FALSE,
                              !.toast = "Failed to update run"]
            /\ UNCHANGED << globalTeamState, clients >>
    /\ UNCHANGED << service, restVars >>
    /\ UNCHANGED mapVars
    /\ UNCHANGED sidebarVars

\* RunEditDialog.tsx lines 118-126: handleCancel
CancelRunEdit ==
    /\ DialogEvent
    /\ dialog.open
    /\ dialog' = [NoDialog EXCEPT !.saved = dialog.saved, !.toast = dialog.toast]
    /\ UNCHANGED << globalTeamState, clients, service, restVars >>
    /\ UNCHANGED mapVars
    /\ UNCHANGED sidebarVars

DialogNext ==
    \/ SocketOpened
    \/ GetTeamState(Timer)
    \/ Receive(Timer)
    \/ \E team \in Teams, runId \in RunIds, now \in Clock, serverNow \in Clock :
          StartRun(team, runId, now, serverNow)
    \/ \E now \in Clock : StopRun(now)
    \/ \E i \in 1..MaxRuns, shown \in Clock : EditRun(i, shown)
    \/ \E endTime \in Times \cup {NoTime} : EditEndTime(endTime)
    \/ \E teamColor \in Teams, startTime \in Times, currentTime \in Clock :
          SaveRunEdit(teamColor, startTime, currentTime)
    \/ CancelRunEdit

DialogSpec == Init /\ [][DialogNext]_vars

\* ================================================== the search box
\* the calls of geocode in flight but the i-th
Settled(pk, i) ==
    [pk EXCEPT !.pending = [j \in 1..(Len(pk.pending) - 1) |->
                               IF j < i THEN pk.pending[j] ELSE pk.pending[j + 1]]]

\* nothing but the search box changes
PickerOnly ==
    /\ UNCHANGED << events, hiderMode, toasts >>
    /\ UNCHANGED << globalTeamState, clients, selectedTeam, previousActiveTeam,
                    previousRunning, service, dialog >>
    /\ UNCHANGED extraVars
    /\ UNCHANGED mapVars

\* PlacePicker.tsx lines 64, 69-87, 253-258: the debounced text changes to q
\* and the effect runs
Search(q) ==
    /\ q # picker.debouncedValue
    /\ Len(picker.pending) < MaxPending
    /\ picker' = GeocodeEffect(picker, q)
    /\ PickerOnly

\* lines 77-80: a call of geocode returns n candidates
GeocodeResolved(i, n) ==
    /\ i \in 1..Len(picker.pending)
    /\ picker' = GeocodeThen(Settled(picker, i), Candidates(picker.pending[i].query, n))
    /\ PickerOnly

\* lines 81-85: a call of geocode fails
GeocodeRejected(i) ==
    /\ i \in 1..Len(picker.pending)
    /\ picker' = GeocodeCatch(Settled(picker, i))
    /\ PickerOnly

SearchNext ==
    \/ \E q \in Queries \cup {NoText} : Search(q)
    \/ \E i \in 1..MaxPending, n \in 0..MaxResults : GeocodeResolved(i, n)
    \/ \E i \in 1..MaxPending : GeocodeRejected(i)

SearchSpec == Init /\ [][SearchNext]_vars

\* ================================================== the server's socket
\* a message arrives at the server; the model follows MaxMessages of them
MessageEvent == events < MaxMessages /\ events' = events + 1

\* the record of p with the fields of D only
Restrict(p, D) == [f \in D |-> p[f]]

\* what a socket can send: a text that is no JSON, a message of a type the
\* server does not know (QuestionSidebar.tsx 585-603), a message without
\* payload, and run starts and run stops with any of their fields missing
SocketData ==
    { NotJSON,
      JSONStringify([type |-> "team_config_update", payload |-> [enabledTeams |-> Teams]]),
      JSONStringify([type |-> "team_run_start"]),
      JSONStringify([type |-> "team_run_stop"]) }
    \cup { JSONStringify([type |-> "team_run_start", payload |-> Restrict(p, D)]) :
             p \in [team : Teams, runId : RunIds, startTime : Times],
             D \in SUBSET {"team", "runId", "startTime"} }
    \cup { JSONStringify([type |-> "team_run_stop", payload |-> Restrict(p, D)]) :
             p \in [runId : RunIds, endTime : Times],
             D \in SUBSET {"runId", "endTime"} }

\* sidebar-coordination.ts lines 684-707: ws.on('message') runs on data
Message(data, now) ==
    /\ MessageEvent
    /\ CanSend
    /\ LET out == onmessage(globalTeamState, data, now)
       IN  /\ Len(out.state.teamRuns) <= MaxRuns
           /\ globalTeamState' = out.state
           /\ clients' = broadcast(clients, out.sent)
    /\ serverLog' = Append(serverLog, LogLine(globalTeamState, data))
    /\ UNCHANGED << service, dialog, picker, saveState, places, panel >>
    /\ UNCHANGED mapVars
    /\ UNCHANGED sidebarVars

MessageNext ==
    \/ Connect(App)
    \/ GetTeamState(App)
    \/ Receive(App)
    \/ \E data \in SocketData, now \in Clock : Message(data, now)

MessageSpec == Init /\ [][MessageNext]_vars

\* ================================================== disconnect()
\* QuestionSidebar.tsx lines 488-494: disconnect() is called; the server sees
\* an open socket close
ServiceDisconnect ==
    /\ ServiceEvent
    /\ service' = disconnect(service)
    /\ clients' = IF service.websocket = "open"
                  THEN [clients EXCEPT ![Timer] = ClosedClient(clients[Timer].teamState)]
                  ELSE clients
    /\ UNCHANGED << globalTeamState, dialog, restVars >>
    /\ UNCHANGED mapVars
    /\ UNCHANGED sidebarVars

\* lines 352-357: the close event of a socket that disconnect() closed
SocketCloseEvent ==
    /\ UNCHANGED events
    /\ service.closing > 0
    /\ service' = onclose([service EXCEPT !.closing = @ - 1])
    /\ SocketKept

DisconnectNext ==
    \/ SocketOpened
    \/ ConnectFailed
    \/ SocketClosed
    \/ ReconnectTimer
    \/ NetworkDown
    \/ NetworkUp
    \/ ServiceDisconnect
    \/ SocketCloseEvent
    \/ GetTeamState(Timer)
    \/ Receive(Timer)
    \/ \E team \in Teams, runId \in RunIds, startTime \in Times, now \in Clock :
          TeamRunStart(team, runId, startTime, now)

DisconnectSpec == Init /\ [][DisconnectNext]_vars

\* ================================================== auto-save
\* an event of the question sidebar; the model follows sessions of at most
\* MaxSaveEvents
SaveEvent == events < MaxSaveEvents /\ events' = events + 1

\* the stores of the other pages
otherPages == << globalTeamState, clients, selectedTeam, previousActiveTeam,
                 previousRunning, service, dialog, picker, serverLog, places, panel >>

\* autoSave.set by the options; the handler is not in src/
SetAutoSave ==
    /\ SaveEvent
    /\ saveState' = [saveState EXCEPT !.autoSave = ~@]
    /\ UNCHANGED << map, isLoading, questions, mapGeoJSON, polyGeoJSON, selection,
                    planningModeEnabled, hiderMode, questionFinishedMapData, layers,
                    toasts, passes, watchdog, lastFold, clipboard, previews, cache >>
    /\ UNCHANGED otherPages

\* sidebar-coordination.ts lines 111-120: addQuestion pushes in place and
\* calls questionModified, which publishes a copy if autoSave is on and
\* refreshes the sidebar only if it is off
QuestionAdded(q) ==
    /\ SaveEvent
    /\ map
    /\ Len(questions) < MaxQuestions
    /\ q.key \notin KeysOf(questions)
    /\ IF ShouldPublish(saveState)
       THEN /\ addQuestion(q)
            /\ saveState' = [saveState EXCEPT !.persisted = Append(questions, q)]
       ELSE /\ questions' = Append(questions, q)
            /\ passes' = Pushed(passes, q)
            /\ watchdog' = IF watchdog.alias
                           THEN [watchdog EXCEPT !.questions = Append(@, q)]
                           ELSE watchdog
            /\ saveState' = [saveState EXCEPT !.triggerLocalRefresh = @ + 1]
            /\ UNCHANGED << isLoading, mapGeoJSON, polyGeoJSON, selection, hiderMode,
                            previews >>
    /\ UNCHANGED << map, planningModeEnabled, questionFinishedMapData, layers,
                    toasts, lastFold, clipboard, cache >>
    /\ UNCHANGED otherPages

\* lines 113-120: a question card changes a field of the question with key k
\* in place and calls questionModified
QuestionEdited(k) ==
    /\ SaveEvent
    /\ map
    /\ k \in KeysOf(questions)
    /\ IF ShouldPublish(saveState)
       THEN /\ RefreshEffectOn(Unaliased(EditedIn(passes, k)), Edited(questions, k),
                               mapGeoJSON, polyGeoJSON, selection, hiderMode)
            /\ watchdog' = [watchdog EXCEPT !.questions = Edited(@, k), !.alias = FALSE]
            /\ saveState' = [saveState EXCEPT !.persisted = Edited(questions, k)]
       ELSE /\ questions' = Edited(questions, k)
            /\ passes' = EditedIn(passes, k)
            /\ watchdog' = [watchdog EXCEPT !.questions = Edited(@, k)]
            /\ saveState' = [saveState EXCEPT !.triggerLocalRefresh = @ + 1]
            /\ UNCHANGED << isLoading, mapGeoJSON, polyGeoJSON, selection, hiderMode,
                            previews >>
    /\ UNCHANGED << map, planningModeEnabled, questionFinishedMapData, layers,
                    toasts, lastFold, clipboard, cache >>
    /\ UNCHANGED otherPages

\* lines 218-225 and QuestionSidebar.tsx 254-264: the Save button, shown
\* while autoSave is off and disabled while loading, calls save()
Save ==
    /\ SaveEvent
    /\ map
    /\ ~saveState.autoSave
    /\ ~isLoading
    /\ Publish(questions, mapGeoJSON, polyGeoJSON, selection, hiderMode)
    /\ saveState' = [saveState EXCEPT !.persisted = questions]
    /\ UNCHANGED << map, planningModeEnabled, questionFinishedMapData, layers,
                    toasts, lastFold, clipboard, cache >>
    /\ UNCHANGED otherPages

AutoSaveNext ==
    \/ MapMounted
    \/ SetAutoSave
    \/ \E q \in QuestionPool : QuestionAdded(q)
    \/ \E k \in Keys : QuestionEdited(k)
    \/ Save
    \/ \E p \in PassIds : ClearCacheDone(p)
    \/ \E p \in PassIds : ApplyOk(p)

AutoSaveSpec == Init /\ [][AutoSaveNext]_vars

\* ================================================== the place picker's list
\* an event of the place picker; the model follows sessions of at most
\* MaxPlaceEvents
PlaceEvent == events < MaxPlaceEvents /\ events' = events + 1

\* the handler ends with mapGeoJSON.set(null), polyGeoJSON.set(null) and
\* questions.set([...questions.get()]); the boundary follows the base location
PlacesPublished(pl) ==
    /\ places' = pl
    /\ Publish(questions, NULL, NULL, pl.mapGeoLocation, hiderMode)
    /\ UNCHANGED << map, planningModeEnabled, questionFinishedMapData, layers,
                    lastFold, clipboard, cache >>
    /\ UNCHANGED << globalTeamState, clients, selectedTeam, previousActiveTeam,
                    previousRunning, service, dialog, picker, serverLog, saveState,
                    panel >>

\* PlacePicker.tsx lines 279-296: a search result is selected
ResultSelected(result) ==
    /\ PlaceEvent
    /\ Len(places.additionalMapGeoLocations) < MaxLocations
    /\ PlacesPublished([places EXCEPT !.additionalMapGeoLocations =
          Append(@, [added |-> TRUE, location |-> result, base |-> FALSE])])
    /\ UNCHANGED toasts

\* lines 152-194: the plus or minus square of an additional location
ToggleAdded(i) ==
    /\ PlaceEvent
    /\ polyGeoJSON = NULL
    /\ i \in 1..Len(places.additionalMapGeoLocations)
    /\ ~isLoading
    /\ PlacesPublished([places EXCEPT !.additionalMapGeoLocations[i].added = ~@])
    /\ UNCHANGED toasts

\* lines 195-246: the X of a location; index 0 is the base location
RemoveLocation(i) ==
    /\ PlaceEvent
    /\ polyGeoJSON = NULL
    /\ i \in 0..Len(places.additionalMapGeoLocations)
    /\ IF i = 0 /\ addedLocations(places.additionalMapGeoLocations) = {}
       THEN /\ toasts' = toasts \cup {"Please add another location in addition mode."}
            /\ UNCHANGED << map, isLoading, questions, mapGeoJSON, polyGeoJSON, selection,
                            planningModeEnabled, hiderMode, questionFinishedMapData,
                            layers, passes, watchdog, lastFold, clipboard, previews,
                            cache >>
            /\ UNCHANGED teamVars
       ELSE /\ UNCHANGED toasts
            /\ IF i = 0
               THEN LET added == addedLocations(places.additionalMapGeoLocations)
                        first == CHOOSE j \in added : \A k \in added : j <= k
                    IN  PlacesPublished(Promoted(places, first))
               ELSE PlacesPublished([places EXCEPT !.additionalMapGeoLocations =
                        SelectSeq(@, LAMBDA x :
                            x.location # places.additionalMapGeoLocations[i].location)])

PlacesNext ==
    \/ MapMounted
    \/ \E result \in Selections : ResultSelected(result)
    \/ \E i \in 1..MaxLocations : ToggleAdded(i)
    \/ \E i \in 0..MaxLocations : RemoveLocation(i)
    \/ \E p \in PassIds : ClearCacheDone(p)
    \/ \E p \in PassIds : BoundariesResolved(p)
    \/ \E p \in PassIds : ApplyOk(p)

PlacesSpec == Init /\ [][PlacesNext]_vars

\* ================================================== the timer control panel
\* a click in the panel's team sections; the model follows sessions of at
\* most MaxPanelEvents
PanelEvent == events < MaxPanelEvents /\ events' = events + 1

\* the click changes the panel's stores only
PanelOnly ==
    /\ UNCHANGED << globalTeamState, clients, selectedTeam, previousActiveTeam,
                    previousRunning, service, dialog, picker, serverLog, saveState,
                    places >>
    /\ UNCHANGED mapVars
    /\ UNCHANGED sidebarVars

\* TimerControlPanel.tsx lines 203-217: the button of an enabled team
SelectTimerTeam(team) ==
    /\ PanelEvent
    /\ panel.enabledTeams[team]
    /\ panel' = [panel EXCEPT !.selectedTimerTeam =
                    IF team = @ THEN NoTeam ELSE team]
    /\ PanelOnly

\* lines 149-165: the visibility switch of a team
ToggleTeamEnabled(team) ==
    /\ PanelEvent
    /\ panel' = toggleTeamEnabled(panel, clients[Timer].teamState, team)
    /\ PanelOnly

\* lines 68-86: startRun needs a selected team
PanelStartRun ==
    /\ panel.selectedTimerTeam # NoTeam
    /\ \E runId \in RunIds, now \in Clock :
          StartRun(panel.selectedTimerTeam, runId, now, now)

PanelNext ==
    \/ SocketOpened
    \/ \E team \in Teams : SelectTimerTeam(team)
    \/ \E team \in Teams : ToggleTeamEnabled(team)
    \/ PanelStartRun
    \/ \E now \in Clock : StopRun(now)
    \/ Receive(Timer)

PanelSpec == Init /\ [][PanelNext]_vars

\* ---------------------------------------------------------------- claims
\* the region a mask leaves open
RegionOf(mapData) == OuterFrame \ mapData.features[1]

\* what the fold returned for the call recorded in lastFold
LastEnvelope == applyQuestionsToMapGeoData(lastFold.qs, lastFold.base, lastFold.planning)

C2_BusyFlagCleared == (InFlight = {}) => ~isLoading

\* C3: while no pass is in flight, a change of the question list, of the
\* base polygon (the drawn polygon or the selected places) or of planning
\* mode starts a derivation pass.
C3_ChangeStartsPass ==
    [][ ( /\ map
          /\ InFlight = {}
          /\ \/ questions' # questions
             \/ polyGeoJSON' # polyGeoJSON
             \/ selection' # selection
             \/ planningModeEnabled' # planningModeEnabled )
        => InFlight' # {} ]_vars

\* C4: the feasible region a pass produced lies inside the base polygon the
\* pass started from.
C4_RegionInsideBase ==
    lastFold.done => RegionOf(questionFinishedMapData) \subseteq lastFold.base

\* a pass narrowed its base polygon to a smaller, non-empty region
C4_Witness ==
    /\ lastFold.done
    /\ lastFold.qs # << >>
    /\ RegionOf(questionFinishedMapData) # {}
    /\ RegionOf(questionFinishedMapData) # lastFold.base

\* C5: unanswered questions in the list do not change the result: the region
\* and the mask of a pass are those of the same list without its unanswered
\* questions.
C5_UnansweredIgnored ==
    lastFold.done =>
        LET Q == SelectSeq(lastFold.qs, LAMBDA q : q.answered)
            d == applyQuestionsToMapGeoData(Q, lastFold.base, lastFold.planning)
        IN  /\ LastEnvelope.feasibleRegion = d.feasibleRegion
            /\ questionFinishedMapData = FeatureCollection(OuterFrame \ d.feasibleRegion)

\* a pass folded an unanswered question whose area would have narrowed the base
C5_Witness ==
    /\ lastFold.done
    /\ \E i \in 1..Len(lastFold.qs) :
          /\ ~lastFold.qs[i].answered
          /\ ~(lastFold.base \subseteq lastFold.qs[i].area)
    /\ RegionOf(questionFinishedMapData) # {}

C7_EmptyAtDelivered ==
    (lastFold.done /\ LastEnvelope.emptyAt # {}) =>
        /\ "emptyAt" \in DOMAIN questionFinishedMapData
        /\ questionFinishedMapData.emptyAt = LastEnvelope.emptyAt

\* C8: after a completed pass the mask is one polygon, disjoint from the
\* feasible region and covering the outer frame together with it, and that
\* mask is what questionFinishedMapData holds and what the map shows.
C8_MaskIsComplement ==
    lastFold.done =>
        LET region == LastEnvelope.feasibleRegion
        IN  /\ Len(questionFinishedMapData.features) = 1
            /\ questionFinishedMapData.features[1] \cap region = {}
            /\ questionFinishedMapData.features[1] \cup region = OuterFrame
            /\ Len(layers) >= 1
            /\ layers[1] = questionFinishedMapData

\* a pass completed with a region that is neither empty nor the whole base
C8_Witness ==
    /\ lastFold.done
    /\ LastEnvelope.feasibleRegion # {}
    /\ LastEnvelope.feasibleRegion # lastFold.base
    /\ layers = << questionFinishedMapData >>

C10_NoNullBase ==
    \A p \in PassIds : passes[p].pc \in {"hiderify", "apply"} => passes[p].base # NULL

\* C11: a boundary resolution that was started for a selection that has
\* since changed is discarded: when it ends, mapGeoJSON is left as it is and
\* the pass does not take the stale boundary as its base.
C11_StaleResolutionDiscarded ==
    [][ \A p \in PassIds :
          ( /\ passes[p].pc = "boundaries"
            /\ passes[p].sel # selection
            /\ passes'[p].pc # "boundaries" )
          => /\ mapGeoJSON' = mapGeoJSON
             /\ passes'[p].base # determineMapBoundaries(passes[p].sel) ]_vars

\* C12: no two questions of the list have the same key.
C12_KeysUnique ==
    \A i, j \in 1..Len(questions) : i # j => questions[i].key # questions[j].key

\* C13: importing a text that is no JSON, or whose object lacks the
\* question's data, is rejected with an error toast and changes neither the
\* question list nor the passes in flight: no derivation is triggered.
C13_InvalidImportRejected ==
    [][ ( /\ \E fresh \in Keys : PasteQuestion(fresh)
          /\ ~clipboard.json \/ "area" \notin DOMAIN clipboard.value )
        => /\ questions' = questions
           /\ passes' = passes
           /\ isLoading' = isLoading
           /\ "No valid question found in clipboard" \in toasts' ]_vars

\* an import was rejected while the list held a question
C13_Witness ==
    /\ "No valid question found in clipboard" \in toasts
    /\ questions # << >>
    /\ ~clipboard.json \/ "area" \notin DOMAIN clipboard.value

C15_DraftsPreviewedNotFolded ==
    [][ \A p \in PassIds :
          ( /\ passes[p].pc = "apply"
            /\ passes[p].base # NULL
            /\ passes[p].planning
            /\ passes'[p].pc = "idle" )
          => /\ \A i \in 1..Len(passes[p].qs) :
                   ~passes[p].qs[i].finalized => passes[p].qs[i].key \in previews'
             /\ RegionOf(questionFinishedMapData') =
                   applyQuestionsToMapGeoData(
                       SelectSeq(passes[p].qs, LAMBDA q : q.finalized),
                       passes[p].base, FALSE).feasibleRegion ]_vars

\* a planning-mode pass previewed a draft that would have narrowed the base
C15_Witness ==
    /\ lastFold.done
    /\ lastFold.planning
    /\ RegionOf(questionFinishedMapData) = lastFold.base
    /\ \E i \in 1..Len(lastFold.qs) :
          /\ ~lastFold.qs[i].finalized
          /\ lastFold.qs[i].answered
          /\ ~(lastFold.base \subseteq lastFold.qs[i].area)
          /\ lastFold.qs[i].key \in previews

\* C16: when the boundary selection changes and a pass starts its boundary
\* lookup on the change, no entry cached before the change is left for the
\* pass to use.
C16_CacheInvalidated ==
    [][ (selection' # selection
         /\ \E p \in PassIds :
              passes[p].pc # "boundaries" /\ passes'[p].pc = "boundaries")
        => cache' = {} ]_vars

\* the fields of a team state the claims compare
TeamStateOf(ts) ==
    << ts.activeTeam, ts.currentRunId, ts.currentRunStartTime, ts.isRunning, ts.teamRuns >>

\* C17: every client whose socket is open and that has processed every
\* message the server sent it holds a teamState equal to the server's
\* globalTeamState.
C17_ClientsConverge ==
    \A c \in Clients :
        (clients[c].open /\ clients[c].inbox = << >>)
        => TeamStateOf(clients[c].teamState) = TeamStateOf(globalTeamState)

\* a client has caught up with a server on which a second run was started
\* while the first was active
C17_Witness ==
    \E c \in Clients :
        /\ clients[c].open /\ clients[c].inbox = << >>
        /\ globalTeamState.isRunning
        /\ Len(globalTeamState.teamRuns) = 2
        /\ "endTime" \in DOMAIN globalTeamState.teamRuns[1]
        /\ clients[c].teamState = globalTeamState

\* C18: while a team is selected, a step in which its run goes from not
\* active to active leaves hider mode enabled, and a step in which its active
\* run ends leaves hider mode disabled.
C18_HiderFollowsRun ==
    [][ (selectedTeam' = selectedTeam /\ selectedTeam # NoTeam)
        => /\ (~HasActiveRun(clients[App].teamState, selectedTeam)
               /\ HasActiveRun(clients'[App].teamState, selectedTeam))
              => hiderMode'
           /\ (HasActiveRun(clients[App].teamState, selectedTeam)
               /\ ~HasActiveRun(clients'[App].teamState, selectedTeam))
              => ~hiderMode' ]_vars

\* the selected team's run has ended and hider mode was disabled for it
C18_Witness ==
    /\ selectedTeam # NoTeam
    /\ ~hiderMode
    /\ "Hider mode disabled - run ended" \in toasts
    /\ ~clients[App].teamState.isRunning
    /\ \E i \in 1..Len(clients[App].teamState.teamRuns) :
          /\ clients[App].teamState.teamRuns[i].teamColor = selectedTeam
          /\ "endTime" \in DOMAIN clients[App].teamState.teamRuns[i]

\* C19: a step that changes the selected team to a team leaves hider mode
\* enabled if that team has an active run and disabled if it has none.
C19_HiderFollowsSelection ==
    [][ (selectedTeam' # selectedTeam /\ selectedTeam' # NoTeam)
        => hiderMode' = HasActiveRun(clients'[App].teamState, selectedTeam') ]_vars

\* a team with an active run was selected and the selection effect enabled
\* hider mode
C19_Witness ==
    /\ selectedTeam # NoTeam
    /\ HasActiveRun(clients[App].teamState, selectedTeam)
    /\ hiderMode
    /\ "Hider mode enabled automatically - has an active run" \in toasts

\* C20: on the server every run that has an endTime has a duration equal to
\* its endTime minus its startTime.
C20_DurationIsEndMinusStart ==
    \A i \in 1..Len(globalTeamState.teamRuns) :
        LET run == globalTeamState.teamRuns[i]
        IN  "endTime" \in DOMAIN run
            => /\ "duration" \in DOMAIN run
               /\ run.duration = run.endTime - run.startTime

\* C21: the client reconnects automatically: once its socket, which was open,
\* has closed and the server stays reachable from some moment on, the client
\* ends up connected with its teamState equal to the server's state.
C21_Reconnects ==
    (<>(service.websocket = "open") /\ <>[]service.reachable)
        => <>[](service.isConnected /\ clients[Timer].teamState = globalTeamState)

\* C22: saving the edit dialog for the run that is the active run never gives
\* that run an endTime, and after the edit it is still the active run, running.
C22_ActiveRunKeepsNoEndTime ==
    [][\A teamColor \in Teams, startTime \in Times, currentTime \in Clock :
          (/\ SaveRunEdit(teamColor, startTime, currentTime)
           /\ globalTeamState.isRunning
           /\ globalTeamState.currentRunId = dialog.run.id)
          => /\ globalTeamState'.isRunning
             /\ globalTeamState'.currentRunId = dialog.run.id
             /\ Len(globalTeamState'.teamRuns) = Len(globalTeamState.teamRuns)
             /\ \A i \in 1..Len(globalTeamState.teamRuns) :
                   (/\ globalTeamState.teamRuns[i].id = dialog.run.id
                    /\ "endTime" \notin DOMAIN globalTeamState.teamRuns[i])
                   => "endTime" \notin DOMAIN globalTeamState'.teamRuns[i]]_vars

\* the server accepted an edit of the run that is active
C22_Witness ==
    /\ dialog.saved # NoRun
    /\ globalTeamState.isRunning
    /\ globalTeamState.currentRunId = dialog.saved
    /\ \E i \in 1..Len(globalTeamState.teamRuns) :
          /\ globalTeamState.teamRuns[i].id = dialog.saved
          /\ "endTime" \notin DOMAIN globalTeamState.teamRuns[i]

\* no two runs of the list share an id
UniqueIds(runs) ==
    \A i, j \in 1..Len(runs) : runs[i].id = runs[j].id => i = j

\* the runs of the list whose id is not runId, in their order
RunsBut(runs, runId) ==
    LET Other(run) == run.id # runId
    IN  SelectSeq(runs, Other)

\* the fields of the state that describe the active run
ActiveFields(g) ==
    << g.activeTeam, g.currentRunId, g.currentRunStartTime, g.isRunning >>

\* C23: deleting a run by id removes exactly that run and leaves every other
\* run unchanged; the active-run fields are reset to idle if and only if the
\* deleted run was the active run; deleting an id that is not in teamRuns
\* changes nothing and broadcasts nothing.
C23_DeleteRemovesExactlyThatRun ==
    [][\A runId \in RunIds :
          (DeleteRun(runId) /\ UniqueIds(globalTeamState.teamRuns))
          => IF \E i \in 1..Len(globalTeamState.teamRuns) :
                    globalTeamState.teamRuns[i].id = runId
             THEN /\ globalTeamState'.teamRuns = RunsBut(globalTeamState.teamRuns, runId)
                  /\ Len(globalTeamState'.teamRuns) = Len(globalTeamState.teamRuns) - 1
                  /\ IF globalTeamState.isRunning /\ globalTeamState.currentRunId = runId
                     THEN ActiveFields(globalTeamState') = ActiveFields(IdleTeamState)
                     ELSE ActiveFields(globalTeamState') = ActiveFields(globalTeamState)
             ELSE /\ globalTeamState' = globalTeamState
                  /\ clients' = clients]_vars

\* the broadcast of a deletion that left the active run in place is in flight
C23_Witness ==
    /\ globalTeamState.isRunning
    /\ UniqueIds(globalTeamState.teamRuns)
    /\ \E c \in Clients :
          /\ clients[c].inbox # << >>
          /\ clients[c].inbox[Len(clients[c].inbox)] =
                JSONStringify(SyncMessage(globalTeamState))
          /\ Len(globalTeamState.teamRuns) < Len(clients[c].teamState.teamRuns)
          /\ RunsBut(clients[c].teamState.teamRuns, clients[c].teamState.teamRuns[1].id)
                = globalTeamState.teamRuns

\* C24: a run start, run stop or configuration update issued while the socket
\* is not connected is not sent and leaves the server's state, every socket
\* and the local teamState as they were; it is not queued either: when the
\* socket opens later, nothing reaches the server's state.
C24_NotSentNotQueued ==
    [][/\ (/\ service.websocket = "null" \/ ~service.isConnected
           /\ \/ \E team \in Teams, runId \in RunIds, now \in Clock, serverNow \in Clock :
                    StartRun(team, runId, now, serverNow)
              \/ \E now \in Clock : StopRun(now)
              \/ ConfigUpdate)
          => /\ globalTeamState' = globalTeamState
             /\ clients' = clients
             /\ service' = [service EXCEPT !.warned = TRUE]
       /\ SocketOpened
          => /\ globalTeamState' = globalTeamState
             /\ clients'[Timer].teamState = clients[Timer].teamState
             /\ clients'[Timer].inbox = << JSONStringify(SyncMessage(globalTeamState)) >>]_vars

\* an update was issued while the socket was not connected, the socket has
\* opened since and the state was synchronised: the server never got the update
C24_Witness ==
    /\ service.warned
    /\ service.isConnected
    /\ ~clients[Timer].hello
    /\ clients[Timer].inbox = << >>
    /\ globalTeamState = IdleTeamState
    /\ clients[Timer].teamState = IdleTeamState

\* a pass computed from the list qs is in flight
DerivationFollows(pss, qs) ==
    \E p \in PassIds : pss[p].pc # "idle" /\ pss[p].qs = qs

CurrentBase ==
    IF mapGeoJSON # NULL THEN mapGeoJSON
    ELSE IF polyGeoJSON # NULL THEN polyGeoJSON
    ELSE determineMapBoundaries(selection)

\* C26: a change that arrives while a pass is in flight is not lost: whenever
\* no pass is in flight, the pass that completed last was computed from the
\* current question list, base polygon and planning-mode flag.
C26_ChangeNotLost ==
    (map /\ InFlight = {} /\ lastFold.done)
    => /\ lastFold.qs = questions
       /\ lastFold.base = CurrentBase
       /\ lastFold.planning = planningModeEnabled

\* C27: a failed place lookup does not degrade later lookups: when a lookup
\* that was issued after a failure returns, the list shows its results, or
\* "No locations found." if it returned none, never the service failure.
C27_FailureDoesNotDegrade ==
    [][\A i \in 1..MaxPending, n \in 0..MaxResults :
          (/\ GeocodeResolved(i, n)
           /\ picker.pending[i].afterError
           /\ Len(picker.pending) = 1)
          => Shown(picker') = IF n = 0 THEN "No locations found." ELSE "results"]_vars

\* C28: the reconnect budget is bounded and renewable: the count of
\* consecutive reconnect attempts never exceeds 5, a successful open resets
\* it to 0, each close or failed connect schedules at most one new attempt,
\* and once 5 consecutive attempts have failed no further attempt is scheduled.
C28_ReconnectBudget ==
    [][/\ service'.reconnectAttempts <= maxReconnectAttempts
       /\ SocketOpened => service'.reconnectAttempts = 0
       /\ service'.timers <= service.timers + 1
       /\ service'.timers > service.timers
             => /\ service.websocket # "null"
                /\ service'.websocket = "null"
                /\ service'.reconnectAttempts = service.reconnectAttempts + 1
       /\ service.reconnectAttempts = maxReconnectAttempts
             => service'.timers <= service.timers]_vars

\* five attempts in a row have failed, none is scheduled, and the server is
\* reachable
C28_Witness ==
    /\ service.reconnectAttempts = maxReconnectAttempts
    /\ service.timers = 0
    /\ service.websocket = "null"
    /\ service.reachable

\* the positions of the runs that lack an endTime
OpenRuns(g) ==
    { i \in 1..Len(g.teamRuns) : "endTime" \notin DOMAIN g.teamRuns[i] }

\* at most one run lacks an endTime, and only the run named by currentRunId
\* while isRunning is true
OneOpenRun(g) ==
    /\ Cardinality(OpenRuns(g)) <= 1
    /\ \A i \in OpenRuns(g) : g.isRunning /\ g.teamRuns[i].id = g.currentRunId
    /\ ~g.isRunning => OpenRuns(g) = {}

\* C29: on the server at most one run lacks an endTime; a run lacks an endTime
\* only while isRunning is true and it is the run named by currentRunId;
\* whenever isRunning is false every run has an endTime. This holds at the
\* start, so it is stated of every operation on runs with distinct ids: the
\* operation keeps it.
C29_AtMostOneOpenRun ==
    [][(/\ UniqueIds(globalTeamState.teamRuns)
        /\ UniqueIds(globalTeamState'.teamRuns)
        /\ OneOpenRun(globalTeamState))
       => OneOpenRun(globalTeamState')]_vars

\* C30: on the server, whenever isRunning is true, currentRunId names a run of
\* teamRuns, activeTeam is that run's teamColor and currentRunStartTime is
\* that run's startTime, also after edits of the active run (the ids of the
\* runs being distinct).
C30_ActiveFieldsMatchRun ==
    (globalTeamState.isRunning /\ UniqueIds(globalTeamState.teamRuns))
    => \E i \in 1..Len(globalTeamState.teamRuns) :
          /\ globalTeamState.teamRuns[i].id = globalTeamState.currentRunId
          /\ globalTeamState.teamRuns[i].teamColor = globalTeamState.activeTeam
          /\ globalTeamState.teamRuns[i].startTime = globalTeamState.currentRunStartTime

\* C31: the server rejects bad input without effect: a message that is no
\* JSON, has an unknown type, is a run start missing team, runId or startTime,
\* a run stop missing runId or endTime, or a run stop for an id not in
\* teamRuns leaves globalTeamState unchanged and broadcasts nothing (a step
\* that changes the state or a socket's inbox is the step of no such
\* message), and the server takes a well-formed run start afterwards.
BadInput(g, data) ==
    \/ JSONParseThrows(data)
    \/ LET message == JSONParse(data)
       IN  \/ message.type \notin {"team_run_start", "team_run_stop", "get_team_state"}
           \/ "payload" \notin DOMAIN message
           \/ /\ message.type = "team_run_start"
              /\ ~({"team", "runId", "startTime"} \subseteq DOMAIN message.payload)
           \/ /\ message.type = "team_run_stop"
              /\ \/ ~({"runId", "endTime"} \subseteq DOMAIN message.payload)
                 \/ \A i \in 1..Len(g.teamRuns) : g.teamRuns[i].id # message.payload.runId
GoodStart ==
    JSONStringify([type |-> "team_run_start",
                   payload |-> [team |-> "green", runId |-> "r1", startTime |-> 1]])
Rejections ==
    { "Error parsing WebSocket message", "Unknown message type",
      "Invalid team run start payload", "Invalid team run stop payload",
      "Run not found" }
C31_BadInputRejected ==
    /\ [][(globalTeamState' # globalTeamState \/ clients' # clients) =>
            \A data \in SocketData, now \in Clock :
               Message(data, now) => ~BadInput(globalTeamState, data)]_vars
    /\ [](\A i \in 1..Len(serverLog) :
            (/\ serverLog[i] \in Rejections
             /\ events < MaxMessages
             /\ CanSend
             /\ Len(globalTeamState.teamRuns) < MaxRuns)
            => ENABLED Message(GoodStart, 1))
\* a socket is open, a message was rejected, and a later run start was taken
C31_Witness ==
    /\ clients[App].open
    /\ \E i, j \in 1..Len(serverLog) :
          /\ i < j
          /\ serverLog[i] \in Rejections
          /\ serverLog[j] = "Started run"

\* C32: after disconnect() is called on the team update service the client
\* stays disconnected: from then on no socket exists, the service is not
\* connected, and no reconnect timeout is added.
C32_StaysDisconnected ==
    [][service.disconnected =>
          /\ service'.websocket = "null"
          /\ ~service'.isConnected
          /\ service'.timers <= service.timers]_vars

NoPassStarted == \A p \in PassIds : passes[p].pc = "idle" => passes'[p].pc = "idle"
ModifiedStep == (\E q \in QuestionPool : QuestionAdded(q)) \/ (\E k \in Keys : QuestionEdited(k))
C34_AutoSaveGatesPublication ==
    [][ /\ (ModifiedStep /\ ~saveState.autoSave)
           => /\ saveState'.persisted = saveState.persisted
              /\ NoPassStarted
              /\ isLoading' = isLoading
              /\ saveState'.triggerLocalRefresh # saveState.triggerLocalRefresh
        /\ (~Save /\ ~(ModifiedStep /\ saveState.autoSave))
           => saveState'.persisted = saveState.persisted
        /\ Save => /\ saveState'.persisted = questions'
                   /\ \E p \in PassIds : passes[p].pc = "idle" /\ passes'[p].pc # "idle"
        /\ (ModifiedStep /\ saveState.autoSave)
           => /\ saveState'.persisted = questions'
              /\ questions' # questions ]_vars
\* auto-save is off, a question was added or edited and not saved, and no
\* pass is in flight
C34_Witness ==
    /\ map
    /\ ~saveState.autoSave
    /\ saveState.triggerLocalRefresh > 0
    /\ saveState.persisted # questions
    /\ InFlight = {}

\* the additional list without its entry at index j
WithoutEntry(additional, j) ==
    [k \in 1..(Len(additional) - 1) |->
        IF k < j THEN additional[k] ELSE additional[k + 1]]

\* C35: removing the base location while no additional location is in add
\* mode shows the error and leaves mapGeoLocation, additionalMapGeoLocations,
\* mapGeoJSON, polyGeoJSON and the question list as they were; when an added
\* location exists, the first of them becomes mapGeoLocation and leaves the
\* additional list, the other entries staying in their order
C35_RemoveBaseLocation ==
    [][RemoveLocation(0) =>
        LET additional == places.additionalMapGeoLocations
            added == { i \in 1..Len(additional) : additional[i].added }
        IN  IF added = {}
            THEN /\ "Please add another location in addition mode." \in toasts'
                 /\ places' = places
                 /\ mapGeoJSON' = mapGeoJSON
                 /\ polyGeoJSON' = polyGeoJSON
                 /\ questions' = questions
                 /\ passes' = passes
            ELSE \E j \in added :
                    /\ \A k \in added : j <= k
                    /\ places'.mapGeoLocation = additional[j].location
                    /\ places'.additionalMapGeoLocations = WithoutEntry(additional, j)
                    /\ toasts' = toasts]_vars

\* a refusal after a promotion: location 2 was added, became the base when
\* the base was removed, and its own removal was then refused
C35_Witness ==
    /\ "Please add another location in addition mode." \in toasts
    /\ places.mapGeoLocation = 2
    /\ places.additionalMapGeoLocations = << >>

\* C36: in the timer control panel a toggle never disables the team whose
\* run is active, and the selected timer team is always none or an enabled
\* team; a run is active from the moment the server has started it
C36_PanelTeamsConsistent ==
    /\ [](panel.selectedTimerTeam = NoTeam \/ panel.enabledTeams[panel.selectedTimerTeam])
    /\ [][\A team \in Teams :
            (/\ ToggleTeamEnabled(team)
             /\ globalTeamState.isRunning
             /\ globalTeamState.activeTeam = team
             /\ panel.enabledTeams[team])
            => panel'.enabledTeams[team]]_vars

\* the times of the form that the claim calls invalid: a start time in the
\* future, or an entered end time that is in the future or not after the start
InvalidEdit(startTime, endTime, currentTime) ==
    \/ startTime > currentTime
    \/ /\ endTime # NoTime
       /\ (endTime > currentTime \/ endTime <= startTime)

\* C37: saving a run edit whose start time is in the future, whose end time
\* is in the future, or whose end time is not after its start time sends no
\* update (the server's state and every client's inbox stay as they were),
\* shows a validation error, keeps the dialog open on the same run and leaves
\* the saving flag false
C37_InvalidEditRejected ==
    [][\A teamColor \in Teams, startTime \in Times, currentTime \in Clock :
          (/\ SaveRunEdit(teamColor, startTime, currentTime)
           /\ InvalidEdit(startTime, dialog.endTime, currentTime))
          => /\ globalTeamState' = globalTeamState
             /\ clients' = clients
             /\ dialog'.open
             /\ dialog'.run = dialog.run
             /\ ~dialog'.isSaving
             /\ dialog'.toast = ValidationError(startTime, dialog.endTime, currentTime)]_vars

\* C38: the results in the search box are results of the current search
\* text: a response to an earlier text never replaces the later text's
\* results, and with the text cleared there are no results
C38_ResultsOfCurrentText ==
    /\ \A r \in picker.results : r.query = picker.debouncedValue
    /\ picker.debouncedValue = NoText => picker.results = {}

====
